---- MODULE Spec2Model ----
(***************************************************************************)
(* A model of nixos-conjurer: the orchestrator App::run (process 0), the   *)
(* child it forks through run_forked to run build_image (process 1), and   *)
(* the child build_image forks through run_forked to run the build         *)
(* pipeline (process 2), with the operating system's job-control and       *)
(* termination signals as the environment.                                 *)
(***************************************************************************)
EXTENDS Integers, Sequences, FiniteSets, TLC

(***************************************************************************)
(* Bounds of the model.                                                    *)
(***************************************************************************)
\* longest standard output of the image generator, in bytes
MaxOutLen == 3
\* number of signals the environment sends to the children in one run
MaxSignals == 1

(***************************************************************************)
(* Processes.  run_forked is called once by process 0 (App::run) and once  *)
(* by process 1 (build_image); the child of the call made by p is p + 1.   *)
(***************************************************************************)
Procs == {0, 1, 2}
Supervisors == {0, 1}
Children == {1, 2}
ChildOf(p) == p + 1
ParentOf(c) == c - 1

\* the signals the environment sends: one that stops a process, and two
\* that terminate it
StopSigs == {"SIGSTOP"}
TermSigs == {"SIGTERM", "SIGKILL"}

(***************************************************************************)
(* Bytes and paths.  A path is a sequence of bytes; the generator's output *)
(* is drawn from the newline, the path separator, a letter and a byte that *)
(* is not valid UTF-8.                                                     *)
(***************************************************************************)
NewLine == 10
Slash == 47
\* newline, separator, the letter a, and 0xFF
GenBytes == {NewLine, Slash, 97, 255}
\* the temporary directory TempDir::new creates, "/r"
RootPath == <<Slash, 114>>

RECURSIVE SeqsUpTo(_, _)
SeqsUpTo(S, n) ==
    IF n = 0 THEN {<<>>}
    ELSE LET shorter == SeqsUpTo(S, n - 1)
         IN  shorter \cup {Append(s, b) : s \in {t \in shorter : Len(t) = n - 1}, b \in S}

GenOutputs == SeqsUpTo(GenBytes, MaxOutLen)

RECURSIVE FilterNot(_, _)
FilterNot(s, b) ==
    IF s = <<>> THEN <<>>
    ELSE IF Head(s) = b THEN FilterNot(Tail(s), b)
    ELSE <<Head(s)>> \o FilterNot(Tail(s), b)

\* a parse that kept the first byte
ParseImagePathNoSkip(stdout) == FilterNot(stdout, NewLine)

\* stdout.into_iter().skip(1).filter(|c| c != '\n').collect()
ParseImagePath(stdout) ==
    FilterNot(IF stdout = <<>> THEN <<>> ELSE Tail(stdout), NewLine)

\* Path::join: an absolute argument replaces the base
IsAbsolute(p) == p # <<>> /\ Head(p) = Slash
PathJoin(base, p) ==
    IF IsAbsolute(p) THEN p
    ELSE IF base # <<>> /\ base[Len(base)] = Slash THEN base \o p
    ELSE base \o <<Slash>> \o p

(***************************************************************************)
(* Values.  T = Result<PathBuf, ()> is the type of both work functions;    *)
(* ProcResult<T> = Result<T, Error> is what run_forked returns and what    *)
(* the channel carries.                                                    *)
(***************************************************************************)
OkPath(p) == [ok |-> TRUE, path |-> p]
ErrUnit == [ok |-> FALSE, path |-> <<>>]

NoError == [kind |-> "none", pid |-> 0, status |-> 0, detail |-> "none"]
Error(k, pid, status, detail) ==
    [kind |-> k, pid |-> pid, status |-> status, detail |-> detail]

NoResult == [tag |-> "None", val |-> ErrUnit, err |-> NoError]
ROk(v) == [tag |-> "Ok", val |-> v, err |-> NoError]
RErr(e) == [tag |-> "Err", val |-> ErrUnit, err |-> e]

(***************************************************************************)
(* The wire format of the channel (serde + bincode): an enum is its        *)
(* variant index, a path its length and its bytes; a path that is not      *)
(* valid UTF-8 does not serialize.                                         *)
(***************************************************************************)
IsUtf8(p) == \A i \in 1..Len(p) : p[i] < 128

Serializable(v) == v.ok => IsUtf8(v.path)

SerializeT(v) == IF v.ok THEN <<0, Len(v.path)>> \o v.path ELSE <<1>>

\* the child only ever sends Ok(f())
Serialize(v) == <<0>> \o SerializeT(v)

WellFormed(m) ==
    /\ Len(m) >= 2
    /\ m[1] = 0
    /\ \/ m[2] = 1 /\ Len(m) = 2
       \/ m[2] = 0 /\ Len(m) >= 3 /\ Len(m) = 3 + m[3]

Deserialize(m) ==
    IF m[2] = 1 THEN ROk(ErrUnit)
    ELSE ROk(OkPath(SubSeq(m, 4, Len(m))))

(***************************************************************************)
(* State.                                                                  *)
(***************************************************************************)
VARIABLES
    life,        \* per process: unborn, running, stopped, zombie, reaped
    term,        \* per process: how it terminated
    stopPending, \* per process: it stopped and waitpid has not reported it
    stopSig,     \* per process: the signal that stopped it
    pc,          \* per process: where it is in its code
    fn,          \* per process: the function it runs (main's App::run, or its work)
    sstep,       \* setup_namespace: index of the next step
    setupRet,    \* setup_namespace: what it returned
    pstage,      \* run_build_process: index of the next stage
    guards,      \* setup_namespace: the Mount guards alive, in order of creation
    mounts,      \* targets mounted in the sandbox's mount namespace
    chans,       \* every channel created: its queue, sends and receives
    rf,          \* per supervisor: its run_forked call
    work,        \* per process: the executions of its work function
    log,         \* every operation performed: process, operation, argument, outcome
    rootExists,  \* the ephemeral root directory exists
    imagePath,   \* App::run: the image path run_forked returned
    appResult,   \* the result of App::run
    sigBudget,   \* signals the environment may still send
    doc,         \* the configuration file as it is found on disk
    conf,        \* the Configuration in use, and how it was obtained
    copied,      \* the copies made to a place outside the ephemeral root
    stdout,      \* nixos_generate: the generator's standard output, when it is given
    cmd,         \* run_command: what executing an external command does, when given
    ids,         \* the real uid and gid of the invoking user
    sandbox      \* setup_namespace: the ids it read, and what its steps changed

vars == <<life, term, stopPending, stopSig, pc, fn, sstep, setupRet, pstage, guards,
          mounts, chans, rf, work, log, rootExists, imagePath, appResult, sigBudget,
          doc, conf, copied, stdout, cmd, ids, sandbox>>

\* what does not change outside setup_namespace
inputs == <<doc, conf, stdout, cmd, ids>>

NoTerm == [kind |-> "none", code |-> 0, sig |-> "none"]
Exit(code) == [kind |-> "exit", code |-> code, sig |-> "none"]
Killed(sig) == [kind |-> "signal", code |-> 0, sig |-> sig]

NoEvent == [kind |-> "None", pid |-> 0, status |-> 0, sig |-> "none"]
WaitEvent(k, pid, status, sig) ==
    [kind |-> k, pid |-> pid, status |-> status, sig |-> sig]

Logged(p, op, arg, ok) == [proc |-> p, op |-> op, arg |-> arg, ok |-> ok]

Running(p) == life[p] = "running"
Live(p) == life[p] \in {"running", "stopped"}

\* process p terminates: it becomes a zombie while its parent lives (process
\* 0's parent is the shell), and a zombie child of p is reaped by init
Die(l, p) ==
    [q \in Procs |->
        IF q = p
        THEN IF p = 0 \/ l[ParentOf(p)] \in {"running", "stopped"}
             THEN "zombie" ELSE "reaped"
        ELSE IF q = ChildOf(p) /\ l[q] = "zombie" THEN "reaped"
        ELSE l[q]]

IdleCall ==
    [state |-> "idle", ch |-> 0, forked |-> FALSE, result |-> NoResult, ev |-> NoEvent,
     rd |-> NoResult]
NoWork == [runs |-> 0, val |-> ErrUnit, sends |-> 0, sent |-> FALSE]

\* the process has not called setup_namespace: it is in the host's
\* namespaces, with the host's root, and has read no id
\* Option<T>
None == [some |-> FALSE, val |-> <<>>]
Some(v) == [some |-> TRUE, val |-> v]

\* struct Configuration; App::run of app.rs is given none and builds an lxc
\* image under the name the generator gave it
Configuration(out, path, text) ==
    [output_path |-> out, output_format |-> "lxc",
     nix_configuration_path |-> path, nix_configuration |-> text]

DefaultConfiguration == Configuration(None, None, None)

\* the configurations a file can spell: an output path "o" or none, the
\* path "c" of a Nix configuration or none, an inline Nix configuration "n"
\* or none
Configurations ==
    {Configuration(o, q, t) : o \in {None, Some(<<111>>)}, q \in {None, Some(<<99>>)},
                              t \in {None, Some(<<110>>)}}

\* a validate that accepted everything
ValidateAnything(c) == TRUE

\* Configuration::validate: Ok unless both options are set
Validate(c) == ~(c.nix_configuration.some /\ c.nix_configuration_path.some)

ValidConfigurations == {c \in Configurations : Validate(c)}

\* Configuration::has_nix_configuration
HasNixConfiguration(c) == c.nix_configuration.some \/ c.nix_configuration_path.some

\* the configuration file: it cannot be opened, or cannot be parsed, or it
\* spells a Configuration
Unreadable == [opens |-> FALSE, parses |-> FALSE, val |-> DefaultConfiguration]
Malformed == [opens |-> TRUE, parses |-> FALSE, val |-> DefaultConfiguration]
Parsed(c) == [opens |-> TRUE, parses |-> TRUE, val |-> c]

\* what Configuration::load returned, if it was called
NotLoaded == [state |-> "none", val |-> DefaultConfiguration]
Loaded(c) == [state |-> "ok", val |-> c]
LoadFailed(why) == [state |-> why, val |-> DefaultConfiguration]

\* Configuration::load: open, parse, validate
ConfigurationLoad(d) ==
    IF ~d.opens THEN LoadFailed("open_failed")
    ELSE IF ~d.parses THEN LoadFailed("parse_failed")
    ELSE IF ~Validate(d.val) THEN LoadFailed("invalid")
    ELSE Loaded(d.val)

\* a Nix configuration was given to stage in the root
hasConf == HasNixConfiguration(conf.val)

\* Command::output(): the command ran and ended with status st, or could
\* not be executed
Executed(st) == [exec |-> TRUE, status |-> st]
NotExecuted == [exec |-> FALSE, status |-> NoTerm]

NoSandbox ==
    [uid |-> -1, gid |-> -1, unshared |-> FALSE, dirs |-> {}, cwd |-> "host",
     root |-> "host", oldRootAt |-> "none", setgroups |-> "allow",
     uidMap |-> <<>>, gidMap |-> <<>>]

\* App::run of app.rs is given no configuration; the user is an ordinary one
Init ==
    /\ doc = Parsed(DefaultConfiguration)
    /\ conf = Loaded(DefaultConfiguration)
    /\ copied = <<>>
    /\ stdout = <<>>
    /\ cmd = Executed(Exit(0))
    /\ ids = [uid |-> 1000, gid |-> 100]
    /\ sandbox = NoSandbox
    /\ life = [p \in Procs |-> IF p = 0 THEN "running" ELSE "unborn"]
    /\ term = [p \in Procs |-> NoTerm]
    /\ stopPending = [p \in Procs |-> FALSE]
    /\ stopSig = [p \in Procs |-> "none"]
    /\ pc = [p \in Procs |-> IF p = 0 THEN "make_temp_dir" ELSE "unborn"]
    /\ fn = [p \in Procs |-> IF p = 0 THEN "app_run" ELSE "none"]
    /\ sstep = 1
    /\ setupRet = "none"
    /\ pstage = 1
    /\ guards = <<>>
    /\ mounts = {}
    /\ chans = <<>>
    /\ rf = [p \in Supervisors |-> IdleCall]
    /\ work = [p \in Procs |-> NoWork]
    /\ log = <<>>
    /\ rootExists = FALSE
    /\ imagePath = <<>>
    /\ appResult = "none"
    /\ sigBudget = MaxSignals

(***************************************************************************)
(* App::run up to its run_forked call, process 0 (app.rs).                 *)
(***************************************************************************)
\* a return that forgot the directory (as mem::forget or exit would)
DropRootLeaked(p, exists) == <<>>

\* root_dir goes out of scope: TempDir's Drop removes the directory
DropRoot(p, exists) ==
    IF exists THEN <<Logged(p, "remove_root", "", TRUE)>> ELSE <<>>

\* App::run returns (root_dir, when it exists, is dropped) and main exits
AppFinish(p, ok, entries) ==
    /\ log' = log \o entries \o DropRoot(p, rootExists)
    /\ rootExists' = (rootExists /\ DropRoot(p, rootExists) = <<>>)
    /\ appResult' = IF ok THEN "ok" ELSE "err"
    /\ pc' = [pc EXCEPT ![p] = "done"]
    /\ life' = Die(life, p)
    /\ term' = [term EXCEPT ![p] = Exit(IF ok THEN 0 ELSE 1)]

\* init_app: Configuration::load on the file named on the command line, and
\* the Builder made with what it returned; on Err main reports it and exits
\* with a nonzero status, App::run is never called
LoadConfiguration ==
    /\ pc[0] = "load" /\ Running(0)
    /\ conf' = ConfigurationLoad(doc)
    /\ IF conf'.state = "ok"
       THEN /\ pc' = [pc EXCEPT ![0] = "make_temp_dir"]
            /\ UNCHANGED <<life, term>>
       ELSE /\ pc' = [pc EXCEPT ![0] = "done"]
            /\ life' = Die(life, 0)
            /\ term' = [term EXCEPT ![0] = Exit(1)]
    /\ UNCHANGED <<doc, stdout, cmd, ids, sandbox, copied>>
    /\ UNCHANGED <<stopPending, stopSig, fn, sstep, setupRet, pstage, guards, mounts,
                   chans, rf, work, log, rootExists, imagePath, appResult, sigBudget>>

MakeTempDir ==
    /\ pc[0] = "make_temp_dir" /\ Running(0)
    /\ \E ok \in BOOLEAN :
        IF ok
        THEN /\ rootExists' = TRUE
             /\ log' = Append(log, Logged(0, "make_temp_dir", "", TRUE))
             /\ pc' = [pc EXCEPT ![0] = "stage_conf"]
             /\ UNCHANGED <<life, term, appResult>>
        ELSE AppFinish(0, FALSE, <<Logged(0, "make_temp_dir", "", FALSE)>>)
    /\ UNCHANGED <<inputs, sandbox, copied>>
    /\ UNCHANGED <<stopPending, stopSig, fn, sstep, setupRet, pstage, guards, mounts,
                   chans, rf, work, imagePath, sigBudget>>

\* a staging that wrote whatever configuration was given
StageActionWrite(c) == IF HasNixConfiguration(c) THEN "write" ELSE "none"

\* Builder::copy_nix_configuration: what it does to build_root/configuration.nix
StageAction(c) ==
    IF ~HasNixConfiguration(c) THEN "none"
    ELSE IF c.nix_configuration_path.some THEN "copy"
    ELSE "write"

\* Builder::copy_nix_configuration, which Builder::create_chroot calls
\* between creating the directory and downloading: nothing to do when no
\* configuration was given (App::run of app.rs has no such stage and is
\* given none), else the file is copied or written into the root
StageConfiguration ==
    /\ pc[0] = "stage_conf" /\ Running(0)
    /\ IF ~hasConf
       THEN /\ pc' = [pc EXCEPT ![0] = "download"]
            /\ UNCHANGED <<log, life, term, appResult, rootExists>>
       ELSE \E ok \in BOOLEAN :
            IF ok
            THEN /\ log' = Append(log, Logged(0, "stage_configuration",
                                               StageAction(conf.val), TRUE))
                 /\ pc' = [pc EXCEPT ![0] = "download"]
                 /\ UNCHANGED <<life, term, appResult, rootExists>>
            ELSE AppFinish(0, FALSE, <<Logged(0, "stage_configuration",
                                              StageAction(conf.val), FALSE)>>)
    /\ UNCHANGED <<inputs, sandbox, copied>>
    /\ UNCHANGED <<stopPending, stopSig, fn, sstep, setupRet, pstage, guards, mounts,
                   chans, rf, work, imagePath, sigBudget>>

\* an App::run that went from the download straight to the build
AfterDownloadNoExtract == "run_forked"

\* what App::run does once the tarball is downloaded: it extracts it
AfterDownload == "extract"

DownloadRootfs ==
    /\ pc[0] = "download" /\ Running(0)
    /\ \E ok \in BOOLEAN :
        IF ok
        THEN /\ log' = Append(log, Logged(0, "download", "", TRUE))
             /\ pc' = [pc EXCEPT ![0] = AfterDownload]
             /\ UNCHANGED <<life, term, appResult, rootExists>>
        ELSE AppFinish(0, FALSE, <<Logged(0, "download", "", FALSE)>>)
    /\ UNCHANGED <<inputs, sandbox, copied>>
    /\ UNCHANGED <<stopPending, stopSig, fn, sstep, setupRet, pstage, guards, mounts,
                   chans, rf, work, imagePath, sigBudget>>

\* an App::run that entered the sandbox itself before calling run_forked
AfterExtractSetup == "setup"

\* what App::run does once the tarball is extracted: it calls run_forked
AfterExtract == "run_forked"

ExtractRootfs ==
    /\ pc[0] = "extract" /\ Running(0)
    /\ \E ok \in BOOLEAN :
        IF ok
        THEN /\ log' = Append(log, Logged(0, "extract", "", TRUE))
             /\ pc' = [pc EXCEPT ![0] = AfterExtract]
             /\ UNCHANGED <<life, term, appResult, rootExists>>
        ELSE AppFinish(0, FALSE, <<Logged(0, "extract", "", FALSE)>>)
    /\ UNCHANGED <<inputs, sandbox, copied>>
    /\ UNCHANGED <<stopPending, stopSig, fn, sstep, setupRet, pstage, guards, mounts,
                   chans, rf, work, imagePath, sigBudget>>

(***************************************************************************)
(* run_forked, run_child, wait_for_child and read_child_status             *)
(* (process.rs).                                                           *)
(***************************************************************************)
\* the closure each caller hands to run_forked
WorkOf(caller) == IF caller = "app_run" THEN "build_image" ELSE "run_build_process"

\* the first code of a work function
EntryOf(f) == IF f = "build_image" THEN "setup" ELSE "pipeline"

\* a run_forked that went on to fork whatever channel() returned
ForkedWithoutChannel(chanOk, forkOk) ==
    IF ~forkOk THEN "fork_failed" ELSE "forked"

\* run_forked: the early return on a failed channel(), then the arms of the
\* match on fork()
ForkOutcome(chanOk, forkOk) ==
    IF ~chanOk THEN "channel_failed"
    ELSE IF ~forkOk THEN "fork_failed"
    ELSE "forked"

RunForked(p) ==
    /\ pc[p] = "run_forked" /\ Running(p)
    /\ \E chanOk \in BOOLEAN, forkOk \in BOOLEAN :
        LET c == ChildOf(p)
            made == Append(chans, [q |-> <<>>, sends |-> 0, recvs |-> 0])
            outcome == ForkOutcome(chanOk, forkOk)
        IN  IF outcome = "channel_failed"
            THEN /\ forkOk
                 /\ rf' = [rf EXCEPT ![p] = [@ EXCEPT !.state = "returned",
                               !.result = RErr(Error("channel", 0, 0, "none"))]]
                 /\ pc' = [pc EXCEPT ![p] = "after_fork"]
                 /\ log' = Append(log, Logged(p, "channel", "", FALSE))
                 /\ UNCHANGED <<chans, life, fn>>
            ELSE IF outcome = "fork_failed"
            THEN /\ chans' = made
                 /\ rf' = [rf EXCEPT ![p] = [@ EXCEPT !.state = "returned",
                               !.ch = Len(made),
                               !.result = RErr(Error("fork", 0, 0, "none"))]]
                 /\ pc' = [pc EXCEPT ![p] = "after_fork"]
                 /\ log' = log \o <<Logged(p, "channel", "", chanOk),
                                    Logged(p, "fork", "", FALSE)>>
                 /\ UNCHANGED <<life, fn>>
            ELSE /\ chans' = made
                 /\ rf' = [rf EXCEPT ![p] = [@ EXCEPT !.state = "waiting",
                               !.ch = Len(made), !.forked = TRUE]]
                 /\ life' = [life EXCEPT ![c] = "running"]
                 /\ fn' = [fn EXCEPT ![c] = WorkOf(fn[p])]
                 /\ pc' = [pc EXCEPT ![p] = "wait", ![c] = EntryOf(WorkOf(fn[p]))]
                 /\ log' = log \o <<Logged(p, "channel", "", chanOk),
                                    Logged(p, "fork", "", TRUE)>>
    /\ UNCHANGED <<inputs, sandbox, copied>>
    /\ UNCHANGED <<term, stopPending, stopSig, sstep, setupRet, pstage, guards, mounts,
                   work, rootExists, imagePath, appResult, sigBudget>>

\* a run_child that exited with status 0 whatever the send did
ExitStatusZero(sendOk) == 0

\* run_child: exit(1) when the send failed, exit(0) otherwise
ExitStatus(sendOk) == IF sendOk THEN 0 ELSE 1

\* a run_child that sent the outcome twice
SentTwice(v) == <<Serialize(v), Serialize(v)>>

\* run_child: what tx.send(Ok(f())) puts on the channel
SentMessages(v) == <<Serialize(v)>>

\* run_child: tx.send(Ok(f())), then exit
RunChild(c) ==
    /\ pc[c] = "send" /\ Running(c)
    /\ \E sendOk \in BOOLEAN :
        LET ch == rf[ParentOf(c)].ch
            ok == sendOk /\ Serializable(work[c].val)
        IN  /\ chans' = IF ok
                        THEN [chans EXCEPT ![ch] =
                                 [@ EXCEPT !.q = @ \o SentMessages(work[c].val),
                                           !.sends = @ + Len(SentMessages(work[c].val))]]
                        ELSE chans
            /\ work' = [work EXCEPT ![c] = [@ EXCEPT !.sends = @ + 1, !.sent = ok]]
            /\ term' = [term EXCEPT ![c] = Exit(ExitStatus(ok))]
    /\ life' = Die(life, c)
    /\ pc' = [pc EXCEPT ![c] = "exited"]
    /\ UNCHANGED <<inputs, sandbox, copied>>
    /\ UNCHANGED <<stopPending, stopSig, fn, sstep, setupRet, pstage, guards, mounts,
                   rf, log, rootExists, imagePath, appResult, sigBudget>>

\* read_child_status: rx.try_recv() on the queue q
ReadChildStatus(q) ==
    IF q # <<>> /\ WellFormed(Head(q))
    THEN Deserialize(Head(q))
    ELSE RErr(Error("unable_to_read", 0, 0, "none"))

\* waitpid(child, WUNTRACED) blocks until the child has something to report
HasWaitEvent(c) ==
    \/ life[c] \in {"zombie", "reaped", "unborn"}
    \/ life[c] = "stopped" /\ stopPending[c]

\* what waitpid(child, WUNTRACED) returns (nix's WaitStatus, or ECHILD)
WaitPid(c) ==
    IF life[c] = "zombie"
    THEN IF term[c].kind = "exit"
         THEN WaitEvent("Exited", c, term[c].code, "none")
         ELSE WaitEvent("Signaled", c, 0, term[c].sig)
    ELSE IF life[c] = "stopped"
    THEN WaitEvent("Stopped", c, 0, stopSig[c])
    ELSE WaitEvent("Error", c, 0, "none")

\* a supervisor that sent itself SIGTERM whatever killed the child
ReraisedSigterm(ev) == "SIGTERM"

\* the signal the supervisor sends itself when the child was killed by one
ReraisedSignal(ev) == ev.sig

\* an arm that returned the same error whatever the read gave
NonzeroStatusErrorPlain(ev, rd) ==
    RErr(Error("nonzero_status", ev.pid, ev.status, "none"))

\* the error returned for a child that exited with a nonzero status: the
\* message ends with the read error's message when the read failed
NonzeroStatusError(ev, rd) ==
    IF rd.tag = "Err"
    THEN RErr(Error("nonzero_status", ev.pid, ev.status, rd.err.kind))
    ELSE RErr(Error("nonzero_status", ev.pid, ev.status, "none"))

\* one iteration of wait_for_child's loop on the event ev: the arms of the
\* match, in the order of the code.  rd is what read_child_status returns,
\* killOk whether kill(getpid(), signal) succeeds.
WaitArm(ev, rd, killOk) ==
    IF ev.kind = "Exited" /\ ev.status = 0
    THEN [act |-> "return", ret |-> rd, recv |-> TRUE, sig |-> "none"]
    ELSE IF ev.kind = "Signaled" /\ ev.sig = "SIGSTOP"
    THEN [act |-> "stop_self", ret |-> NoResult, recv |-> FALSE, sig |-> "SIGSTOP"]
    ELSE IF ev.kind = "Signaled"
    THEN [act |-> "kill_self",
          ret |-> IF killOk THEN NoResult
                  ELSE RErr(Error("kill_failed", 0, 0, ReraisedSignal(ev))),
          recv |-> FALSE, sig |-> ReraisedSignal(ev)]
    ELSE IF ev.kind = "Exited"
    THEN [act |-> "return", ret |-> NonzeroStatusError(ev, rd),
          recv |-> TRUE, sig |-> "none"]
    ELSE IF ev.kind # "Error"
    THEN [act |-> "return",
          ret |-> RErr(Error("unexpected_wait_event", ev.pid, 0, ev.kind)),
          recv |-> FALSE, sig |-> "none"]
    ELSE [act |-> "return", ret |-> RErr(Error("wait_failed", 0, 0, "none")),
          recv |-> FALSE, sig |-> "none"]

WaitForChild(p) ==
    /\ Running(p)
    /\ IF pc[p] = "wait_cont"
       THEN \* resumed after stopping itself: kill(child, SIGCONT), wait again
            LET c == ChildOf(p)
            IN  /\ life' = [life EXCEPT ![c] = IF @ = "stopped" THEN "running" ELSE @]
                /\ stopPending' = [stopPending EXCEPT ![c] = FALSE]
                /\ stopSig' = [stopSig EXCEPT ![c] = "none"]
                /\ log' = Append(log, Logged(p, "kill_child", "SIGCONT", Live(c)))
                /\ pc' = [pc EXCEPT ![p] = "wait"]
                /\ UNCHANGED <<term, chans, rf>>
       ELSE /\ pc[p] = "wait"
            /\ HasWaitEvent(ChildOf(p))
            /\ \E killOk \in BOOLEAN :
                LET c == ChildOf(p)
                    ev == WaitPid(c)
                    ch == rf[p].ch
                    rd == ReadChildStatus(chans[ch].q)
                    arm == WaitArm(ev, rd, killOk)
                    reaped == [life EXCEPT ![c] =
                                  IF ev.kind \in {"Exited", "Signaled"}
                                  THEN "reaped" ELSE @]
                    returns == arm.ret.tag # "None"
                IN  /\ ev.kind # "Signaled" => killOk
                    /\ chans' = IF arm.recv
                                THEN [chans EXCEPT ![ch] =
                                         [@ EXCEPT !.q = IF @ = <<>> THEN <<>> ELSE Tail(@),
                                                   !.recvs = @ + 1]]
                                ELSE chans
                    /\ life' = IF arm.act = "kill_self" /\ killOk
                               THEN Die(reaped, p)
                               ELSE IF arm.act = "stop_self"
                               THEN [reaped EXCEPT ![p] = "stopped"]
                               ELSE reaped
                    /\ term' = IF arm.act = "kill_self" /\ killOk
                               THEN [term EXCEPT ![p] = Killed(arm.sig)]
                               ELSE term
                    /\ stopPending' = [stopPending EXCEPT ![c] = FALSE,
                                                          ![p] = arm.act = "stop_self"]
                    /\ stopSig' = IF arm.act = "stop_self"
                                  THEN [stopSig EXCEPT ![p] = arm.sig] ELSE stopSig
                    /\ log' = IF arm.act = "return" THEN log
                              ELSE Append(log, Logged(p, "kill_self", arm.sig, killOk))
                    /\ rf' = [rf EXCEPT ![p] = [@ EXCEPT !.ev = ev, !.result = arm.ret,
                                  !.rd = IF arm.recv THEN rd ELSE @,
                                  !.state = IF returns THEN "returned" ELSE @]]
                    /\ pc' = [pc EXCEPT ![p] = IF returns THEN "after_fork"
                                               ELSE IF arm.act = "stop_self" THEN "wait_cont"
                                               ELSE "wait"]
    /\ UNCHANGED <<inputs, sandbox, copied>>
    /\ UNCHANGED <<fn, sstep, setupRet, pstage, guards, mounts, work, rootExists,
                   imagePath, appResult, sigBudget>>

(***************************************************************************)
(* App::run after run_forked, and pull_image (app.rs).                     *)
(***************************************************************************)
RECURSIVE StripTrailing(_)
StripTrailing(p) ==
    IF p # <<>> /\ p[Len(p)] = Slash THEN StripTrailing(SubSeq(p, 1, Len(p) - 1))
    ELSE p

RECURSIVE LastComponent(_)
LastComponent(p) ==
    IF p = <<>> \/ p[Len(p)] = Slash THEN <<>>
    ELSE Append(LastComponent(SubSeq(p, 1, Len(p) - 1)), p[Len(p)])

\* Path::file_name: the final component, none (the empty sequence) for a
\* path without one
FileName(p) == LastComponent(StripTrailing(p))

\* an App::run that pulled whatever run_forked returned as Ok
BuildReturned(r) == r.tag = "Ok"

\* Ok(r) => r?: the build gave an image path
BuildSucceeded(r) == r.tag = "Ok" /\ r.val.ok

AppAfterFork(p) ==
    /\ pc[p] = "after_fork" /\ fn[p] = "app_run" /\ Running(p)
    /\ LET r == rf[p].result
       IN  IF BuildSucceeded(r)
           THEN /\ imagePath' = r.val.path
                /\ pc' = [pc EXCEPT ![p] = "pull"]
                /\ log' = Append(log, Logged(p, "build", "", TRUE))
                /\ UNCHANGED <<life, term, appResult, rootExists>>
           ELSE /\ AppFinish(p, FALSE,
                             <<Logged(p, "build", "", FALSE)>> \o
                             (IF r.tag = "Err"
                              THEN <<Logged(p, "report_failure", r.err.kind, TRUE)>>
                              ELSE <<>>))
                /\ UNCHANGED imagePath
    /\ UNCHANGED <<inputs, sandbox, copied>>
    /\ UNCHANGED <<stopPending, stopSig, fn, sstep, setupRet, pstage, guards, mounts,
                   chans, rf, work, sigBudget>>

\* a pull_image that named the copy after the artifact whatever was configured
OutputPathByName(c, path) ==
    IF FileName(path) # <<>> THEN Some(FileName(path)) ELSE None

\* Builder::pull_image: where the artifact is copied to, if anywhere
OutputPath(c, path) ==
    IF c.output_path.some THEN Some(c.output_path.val)
    ELSE IF FileName(path) # <<>> THEN Some(FileName(path))
    ELSE None

\* one call of std::fs::copy
Copy(from, to, ok) == [from |-> from, to |-> to, ok |-> ok]

PullImage(p) ==
    /\ pc[p] = "pull" /\ Running(p)
    /\ LET output_path == OutputPath(conf.val, imagePath)
       IN  IF ~output_path.some
           THEN /\ AppFinish(p, FALSE, <<Logged(p, "file_name", "", FALSE)>>)
                /\ UNCHANGED copied
           ELSE \E ok \in BOOLEAN :
                   /\ AppFinish(p, ok, <<Logged(p, "copy", "", ok)>>)
                   /\ copied' = Append(copied, Copy(imagePath, output_path.val, ok))
    /\ UNCHANGED <<inputs, sandbox>>
    /\ UNCHANGED <<stopPending, stopSig, fn, sstep, setupRet, pstage, guards, mounts,
                   chans, rf, work, imagePath, sigBudget>>

(***************************************************************************)
(* build_image and setup_namespace (app.rs).                               *)
(***************************************************************************)
\* a setup_namespace that called chroot before pivot_root
SetupStepsChrootFirst ==
    << "unshare", "mkdir_new_root", "mkdir_old_root",
       "bind_root", "bind_proc", "bind_sys", "bind_dev",
       "chdir_new_root", "chroot", "pivot_root", "chdir_root",
       "open_setgroups", "write_setgroups",
       "open_uid_map", "write_uid_map",
       "open_gid_map", "write_gid_map" >>

\* a setup_namespace that wrote the maps before disabling setgroups
SetupStepsMapsFirst ==
    << "unshare", "mkdir_new_root", "mkdir_old_root",
       "bind_root", "bind_proc", "bind_sys", "bind_dev",
       "chdir_new_root", "pivot_root", "chroot", "chdir_root",
       "open_uid_map", "write_uid_map",
       "open_gid_map", "write_gid_map",
       "open_setgroups", "write_setgroups" >>

SetupSteps ==
    << "unshare", "mkdir_new_root", "mkdir_old_root",
       "bind_root", "bind_proc", "bind_sys", "bind_dev",
       "chdir_new_root", "pivot_root", "chroot", "chdir_root",
       "open_setgroups", "write_setgroups",
       "open_uid_map", "write_uid_map",
       "open_gid_map", "write_gid_map" >>

IsBind(step) == step \in {"bind_root", "bind_proc", "bind_sys", "bind_dev"}

BindTarget(step) ==
    CASE step = "bind_root" -> "new_root"
      [] step = "bind_proc" -> "new_root/proc"
      [] step = "bind_sys" -> "new_root/sys"
      [] step = "bind_dev" -> "new_root/dev"
      [] OTHER -> ""

\* guards that were forgotten rather than dropped
DropLogNone(p, g, um) == <<>>

\* guards dropped in the order of their creation
DropLogInOrder(p, g, um) ==
    [i \in 1..Len(g) |-> Logged(p, "umount", g[i], um[i])]

\* the guards are dropped in reverse order of creation; um[i] is whether
\* umount succeeds on the target of guard i
DropLog(p, g, um) ==
    [i \in 1..Len(g) |->
        Logged(p, "umount", g[Len(g) + 1 - i], um[Len(g) + 1 - i])]

PivotDone(l) == \E i \in 1..Len(l) : l[i].op = "pivot_root" /\ l[i].ok

\* a release that took the target off the mount table whatever umount returned
AfterReleaseAll(m, g, um) == m \ {g[i] : i \in 1..Len(g)}

\* the mount table once the guards g are dropped: a target leaves it when
\* its umount succeeds
AfterRelease(m, g, um) == m \ {g[i] : i \in {j \in 1..Len(g) : um[j]}}

\* a release whose failure became the result of setup_namespace
SetupResultOrUmount(stepOk, um) ==
    IF stepOk /\ \A i \in DOMAIN um : um[i] THEN "ok" ELSE "err"

\* what setup_namespace returns: Drop discards what umount returns
SetupResult(stepOk, um) == IF stepOk THEN "ok" ELSE "err"

\* getuid, getgid: the real id outside a user namespace, the overflow id in
\* one that has no mapping, and the mapped id in one that has
VisibleId(hostId, unshared, map) ==
    LET covers == {i \in 1..Len(map) :
                      map[i][2] <= hostId /\ hostId < map[i][2] + map[i][3]}
    IN  IF ~unshared THEN hostId
        ELSE IF covers = {} THEN 65534
        ELSE LET i == CHOOSE j \in covers : TRUE
             IN  map[i][1] + (hostId - map[i][2])

\* a setup_namespace that read the ids after unshare
CapturedIdLate(atEntry, afterUnshare) == afterUnshare

\* the id setup_namespace writes into the map: the one it read on entry
CapturedId(atEntry, afterUnshare) == atEntry

\* a map that gave the user the id it has outside
MapEntrySame(id) == <<id, id, 1>>

\* format!("0 {} 1", id): id 0 of the namespace is id outside, length 1
MapEntry(id) == <<0, id, 1>>

\* what a step that succeeded changes, binds aside
StepEffect(s, step) ==
    CASE step = "unshare" ->
             [s EXCEPT !.unshared = TRUE,
                       !.uid = CapturedId(VisibleId(ids.uid, FALSE, <<>>),
                                          VisibleId(ids.uid, TRUE, <<>>)),
                       !.gid = CapturedId(VisibleId(ids.gid, FALSE, <<>>),
                                          VisibleId(ids.gid, TRUE, <<>>))]
      [] step = "mkdir_new_root" -> [s EXCEPT !.dirs = @ \cup {"new_root"}]
      [] step = "mkdir_old_root" -> [s EXCEPT !.dirs = @ \cup {"old_root"}]
      [] step = "chdir_new_root" -> [s EXCEPT !.cwd = "new_root"]
      [] step = "pivot_root" -> [s EXCEPT !.root = "new_root", !.oldRootAt = "/old_root"]
      [] step = "chdir_root" -> [s EXCEPT !.cwd = "/"]
      [] step = "write_setgroups" -> [s EXCEPT !.setgroups = "deny"]
      [] step = "write_uid_map" -> [s EXCEPT !.uidMap = Append(@, MapEntry(s.uid))]
      [] step = "write_gid_map" -> [s EXCEPT !.gidMap = Append(@, MapEntry(s.gid))]
      [] OTHER -> s

\* a failed unshare leaves the ids read on entry
StepFailed(s, step) ==
    IF step = "unshare"
    THEN [s EXCEPT !.uid = CapturedId(VisibleId(ids.uid, FALSE, <<>>),
                                      VisibleId(ids.uid, FALSE, <<>>)),
                   !.gid = CapturedId(VisibleId(ids.gid, FALSE, <<>>),
                                      VisibleId(ids.gid, FALSE, <<>>))]
    ELSE s

\* a build_image that ran the pipeline itself, without a second fork
AfterSetupInPlace == "pipeline"

\* what build_image does once setup_namespace returned Ok: it calls run_forked
AfterSetup == "run_forked"

\* one step of setup_namespace; the step that fails, or the last one, also
\* returns from the function, which drops every guard alive; a failure makes
\* build_image return Err
SetupStep(p) ==
    /\ pc[p] = "setup" /\ Running(p)
    /\ \E ok \in BOOLEAN :
        LET step == SetupSteps[sstep]
            entry == Logged(p, step, BindTarget(step), ok)
            g1 == IF IsBind(step) /\ ok THEN Append(guards, BindTarget(step)) ELSE guards
            m1 == IF IsBind(step) /\ ok THEN mounts \cup {BindTarget(step)} ELSE mounts
            l1 == Append(log, entry)
        IN  /\ sandbox' = IF ok THEN StepEffect(sandbox, step)
                           ELSE StepFailed(sandbox, step)
            /\ IF ok /\ sstep < Len(SetupSteps)
               THEN /\ sstep' = sstep + 1
                    /\ guards' = g1
                    /\ mounts' = m1
                    /\ log' = l1
                    /\ UNCHANGED <<pc, work, setupRet>>
               ELSE \E um \in [1..Len(g1) -> BOOLEAN] :
                    \* after pivot_root the guards' paths no longer resolve
                    /\ PivotDone(l1) => \A i \in 1..Len(g1) : ~um[i]
                    /\ log' = l1 \o DropLog(p, g1, um)
                    /\ guards' = <<>>
                    /\ mounts' = AfterRelease(m1, g1, um)
                    /\ setupRet' = SetupResult(ok, um)
                    /\ UNCHANGED sstep
                    /\ IF SetupResult(ok, um) = "ok"
                       THEN /\ pc' = [pc EXCEPT ![p] = AfterSetup]
                            /\ UNCHANGED work
                       ELSE /\ pc' = [pc EXCEPT ![p] = "send"]
                            /\ work' = [work EXCEPT ![p] =
                                           [@ EXCEPT !.runs = @ + 1, !.val = ErrUnit]]
    /\ UNCHANGED <<inputs, copied>>
    /\ UNCHANGED <<life, term, stopPending, stopSig, fn, pstage, chans, rf, rootExists,
                   imagePath, appResult, sigBudget>>

\* build_image after run_forked: Ok(p) => p?, Err(e) => err!, then
\* Ok(root_path.join(&image_path))
BuildImageReturn(p) ==
    /\ pc[p] = "after_fork" /\ fn[p] = "build_image" /\ Running(p)
    /\ LET r == rf[p].result
           v == IF r.tag = "Ok" /\ r.val.ok
                THEN OkPath(PathJoin(RootPath, r.val.path))
                ELSE ErrUnit
       IN  work' = [work EXCEPT ![p] = [@ EXCEPT !.runs = @ + 1, !.val = v]]
    /\ pc' = [pc EXCEPT ![p] = "send"]
    /\ UNCHANGED <<inputs, sandbox, copied>>
    /\ UNCHANGED <<life, term, stopPending, stopSig, fn, sstep, setupRet, pstage,
                   guards, mounts, chans, rf, log, rootExists, imagePath, appResult,
                   sigBudget>>

(***************************************************************************)
(* run_build_process (app.rs, alpine.rs, nixos.rs).                        *)
(***************************************************************************)
\* a pipeline that refreshed the channels before it added the channel
PipelineStagesRefreshFirst ==
    << "fix_resolv_conf", "enable_edge_repositories", "update_repositories",
       "install_packages", "create_nix_conf", "remove_default_profile",
       "update_channels", "add_channel",
       "install_nixos_generators", "nixos_generate" >>

PipelineStages ==
    << "fix_resolv_conf", "enable_edge_repositories", "update_repositories",
       "install_packages", "create_nix_conf", "add_channel",
       "remove_default_profile", "update_channels",
       "install_nixos_generators", "nixos_generate" >>

\* Builder::nixos_generate: the arguments given to nixos-generate
GeneratorArgs(c) ==
    IF HasNixConfiguration(c) THEN "-f lxc -c /configuration.nix" ELSE "-f lxc"

\* one stage; the stage that fails, or the last one, also returns from
\* run_build_process.  out is the generator's standard output.
StageOutcome(p, ok, out) ==
    /\ pc[p] = "pipeline" /\ Running(p)
    /\ LET stage == PipelineStages[pstage]
            final == pstage = Len(PipelineStages)
        IN  /\ ~(ok /\ final) => out = <<>>
            /\ log' = Append(log, Logged(p, stage,
                                          IF final THEN GeneratorArgs(conf.val) ELSE "", ok))
            /\ IF ok /\ ~final
               THEN /\ pstage' = pstage + 1
                    /\ UNCHANGED <<pc, work>>
               ELSE /\ work' = [work EXCEPT ![p] =
                                   [@ EXCEPT !.runs = @ + 1,
                                             !.val = IF ok THEN OkPath(ParseImagePath(out))
                                                     ELSE ErrUnit]]
                    /\ pc' = [pc EXCEPT ![p] = "send"]
                    /\ UNCHANGED pstage
    /\ UNCHANGED <<inputs, sandbox, copied>>
    /\ UNCHANGED <<life, term, stopPending, stopSig, fn, sstep, setupRet, guards,
                   mounts, chans, rf, rootExists, imagePath, appResult, sigBudget>>

\* a stage of run_build_process: it succeeds or fails, and the generator
\* prints whatever it prints
PipelineStage(p) ==
    /\ pc[p] = "pipeline"
    /\ \E ok \in BOOLEAN, out \in GenOutputs : StageOutcome(p, ok, out)

\* the stages that run an external command: apk, nix-channel, nix-env,
\* nixos-generate
CommandStages ==
    {"update_repositories", "install_packages", "add_channel", "update_channels",
     "install_nixos_generators", "nixos_generate"}

\* the captured output of a command: its status and what it printed
NoOutput == [status |-> NoTerm, stdout |-> <<>>]

\* ProcResult<Output>; shown is the output an error's message prints
CmdOk(o) == [tag |-> "Ok", output |-> o, err |-> "none", shown |-> NoOutput]
CmdErr(k, o) == [tag |-> "Err", output |-> NoOutput, err |-> k, shown |-> o]

\* run_command: the output, or an error when the command cannot be executed
RunCommand(c, out) ==
    IF c.exec THEN CmdOk([status |-> c.status, stdout |-> out])
    ELSE CmdErr("execute_failed", NoOutput)

\* ExitStatus::success
Success(st) == st = Exit(0)

\* a run_command_checked that did not look at the status
RunCommandUnchecked(c, out) == RunCommand(c, out)

\* run_command_checked
RunCommandChecked(c, out) ==
    LET r == RunCommand(c, out)
    IN  IF r.tag = "Err" THEN CmdErr("execute_failed", NoOutput)
        ELSE IF Success(r.output.status) THEN r
        ELSE CmdErr("nonzero_status", r.output)

\* a stage that runs an external command, the command doing what is given:
\* the stage fails when run_command_checked returns an error
CommandStage(p) ==
    /\ PipelineStages[pstage] \in CommandStages
    /\ LET r == RunCommandChecked(cmd, stdout)
           final == pstage = Len(PipelineStages)
       IN  StageOutcome(p, r.tag = "Ok",
                        IF r.tag = "Ok" /\ final THEN r.output.stdout ELSE <<>>)

\* a stage that runs no external command
FileStage(p) == PipelineStages[pstage] \notin CommandStages /\ PipelineStage(p)

\* nixos_generate, the generator doing what is given
NixosGenerate(p) == pstage = Len(PipelineStages) /\ CommandStage(p)

(***************************************************************************)
(* The environment: signals sent to the children, and SIGCONT to a         *)
(* stopped process.                                                        *)
(***************************************************************************)
EnvStop(c) ==
    /\ Running(c) /\ sigBudget > 0
    /\ \E s \in StopSigs :
        /\ life' = [life EXCEPT ![c] = "stopped"]
        /\ stopPending' = [stopPending EXCEPT ![c] = TRUE]
        /\ stopSig' = [stopSig EXCEPT ![c] = s]
    /\ sigBudget' = sigBudget - 1
    /\ UNCHANGED <<inputs, sandbox, copied>>
    /\ UNCHANGED <<term, pc, fn, sstep, setupRet, pstage, guards, mounts, chans, rf,
                   work, log, rootExists, imagePath, appResult>>

EnvCont(p) ==
    /\ life[p] = "stopped"
    /\ life' = [life EXCEPT ![p] = "running"]
    /\ stopPending' = [stopPending EXCEPT ![p] = FALSE]
    /\ stopSig' = [stopSig EXCEPT ![p] = "none"]
    /\ UNCHANGED <<inputs, sandbox, copied>>
    /\ UNCHANGED <<term, pc, fn, sstep, setupRet, pstage, guards, mounts,
                   chans, rf, work, log, rootExists, imagePath, appResult, sigBudget>>

EnvKill(c) ==
    /\ Live(c) /\ sigBudget > 0
    /\ \E s \in TermSigs :
        /\ s = "SIGTERM" => Running(c)
        /\ term' = [term EXCEPT ![c] = Killed(s)]
    /\ life' = Die(life, c)
    /\ stopPending' = [stopPending EXCEPT ![c] = FALSE]
    /\ sigBudget' = sigBudget - 1
    /\ UNCHANGED <<inputs, sandbox, copied>>
    /\ UNCHANGED <<stopSig, pc, fn, sstep, setupRet, pstage, guards, mounts, chans, rf,
                   work, log, rootExists, imagePath, appResult>>

Next ==
    \/ MakeTempDir
    \/ StageConfiguration
    \/ DownloadRootfs
    \/ ExtractRootfs
    \/ \E p \in Procs : AppAfterFork(p)
    \/ \E p \in Procs : PullImage(p)
    \/ \E p \in Procs : SetupStep(p)
    \/ \E p \in Procs : BuildImageReturn(p)
    \/ \E p \in Procs : PipelineStage(p)
    \/ \E p \in Supervisors : RunForked(p)
    \/ \E p \in Supervisors : WaitForChild(p)
    \/ \E c \in Children : RunChild(c)
    \/ \E c \in Children : EnvStop(c)
    \/ \E p \in Procs : EnvCont(p)
    \/ \E c \in Children : EnvKill(c)

Spec == Init /\ [][Next]_vars

(***************************************************************************)
(* wait_for_child on its own: the supervisor p is in waitpid, and the      *)
(* child's status and the channel's content are drawn from everything the  *)
(* types WaitStatus and ProcResult<T> admit, since run_forked is a public, *)
(* generic function and wait_for_child handles whatever waitpid and the    *)
(* channel deliver.                                                        *)
(***************************************************************************)
\* the values a channel may hold
WaitValues == {ErrUnit} \cup {OkPath(x) : x \in SeqsUpTo({Slash, 97}, 1)}

WaitContents == {<<>>} \cup {<<Serialize(v)>> : v \in WaitValues}

\* the child's condition when waitpid returns: exited with a status, killed
\* by a signal, stopped by a signal, or not a child any more
WaitStatuses ==
    {[life |-> "zombie", term |-> Exit(n), stop |-> "none"] : n \in 0..2}
    \cup {[life |-> "zombie", term |-> Killed(sg), stop |-> "none"] : sg \in TermSigs}
    \cup {[life |-> "stopped", term |-> NoTerm, stop |-> sg] : sg \in StopSigs}
    \cup {[life |-> "reaped", term |-> Exit(0), stop |-> "none"]}

InitWait ==
    \E p \in Supervisors, st \in WaitStatuses, content \in WaitContents :
        LET c == ChildOf(p)
            empty == [q |-> <<>>, sends |-> 0, recvs |-> 0]
            full == [q |-> content, sends |-> Len(content), recvs |-> 0]
            waiting == [IdleCall EXCEPT !.state = "waiting", !.forked = TRUE]
        IN  /\ life = [q \in Procs |-> IF q < c THEN "running"
                                       ELSE IF q = c THEN st.life ELSE "unborn"]
            /\ term = [q \in Procs |-> IF q = c THEN st.term ELSE NoTerm]
            /\ stopPending = [q \in Procs |-> q = c /\ st.life = "stopped"]
            /\ stopSig = [q \in Procs |-> IF q = c THEN st.stop ELSE "none"]
            /\ pc = [q \in Procs |-> IF q < c THEN "wait"
                                     ELSE IF q > c THEN "unborn"
                                     ELSE IF st.term.kind = "exit" THEN "exited"
                                     ELSE IF c = 1 THEN EntryOf("build_image")
                                     ELSE EntryOf("run_build_process")]
            /\ fn = [q \in Procs |-> IF q = 0 THEN "app_run"
                                     ELSE IF q > c THEN "none"
                                     ELSE IF q = 1 THEN "build_image"
                                     ELSE "run_build_process"]
            /\ sstep = IF p = 1 THEN Len(SetupSteps) ELSE 1
            /\ setupRet = IF p = 1 THEN "ok" ELSE "none"
            /\ pstage = 1
            /\ guards = <<>>
            /\ mounts = {}
            /\ chans = IF p = 0 THEN <<full>> ELSE <<empty, full>>
            /\ rf = [q \in Supervisors |->
                        IF q <= p THEN [waiting EXCEPT !.ch = q + 1] ELSE IdleCall]
            /\ work = [q \in Procs |->
                          IF q = c /\ st.term.kind = "exit"
                          THEN [runs |-> 1, val |-> ErrUnit, sends |-> 1,
                                sent |-> content # <<>>]
                          ELSE NoWork]
            /\ log = <<>>
            /\ rootExists = TRUE
            /\ imagePath = <<>>
            /\ appResult = "none"
            /\ sigBudget = 0
            /\ doc = Parsed(DefaultConfiguration)
            /\ conf = Loaded(DefaultConfiguration)
            /\ copied = <<>>
            /\ stdout = <<>>
            /\ cmd = Executed(Exit(0))
            /\ ids = [uid |-> 1000, gid |-> 100]
            /\ sandbox = NoSandbox

NextWait == \E p \in Supervisors : WaitForChild(p)

SpecWait == InitWait /\ [][NextWait]_vars

(***************************************************************************)
(* The program left alone by its environment (no signal is sent), run by   *)
(* any user: uid and gid are what getuid and getgid return to the invoking *)
(* user, root included, and a NixOS configuration is given or not.         *)
(***************************************************************************)
HostUids == {0, 1000}
HostGids == {0, 100}

InitQuiet ==
    /\ \E c \in ValidConfigurations : doc = Parsed(c) /\ conf = Loaded(c)
    /\ copied = <<>>
    /\ stdout = <<>>
    /\ cmd = Executed(Exit(0))
    /\ ids \in [uid : HostUids, gid : HostGids]
    /\ sandbox = NoSandbox
    /\ life = [p \in Procs |-> IF p = 0 THEN "running" ELSE "unborn"]
    /\ term = [p \in Procs |-> NoTerm]
    /\ stopPending = [p \in Procs |-> FALSE]
    /\ stopSig = [p \in Procs |-> "none"]
    /\ pc = [p \in Procs |-> IF p = 0 THEN "make_temp_dir" ELSE "unborn"]
    /\ fn = [p \in Procs |-> IF p = 0 THEN "app_run" ELSE "none"]
    /\ sstep = 1
    /\ setupRet = "none"
    /\ pstage = 1
    /\ guards = <<>>
    /\ mounts = {}
    /\ chans = <<>>
    /\ rf = [p \in Supervisors |-> IdleCall]
    /\ work = [p \in Procs |-> NoWork]
    /\ log = <<>>
    /\ rootExists = FALSE
    /\ imagePath = <<>>
    /\ appResult = "none"
    /\ sigBudget = 0

NextQuiet ==
    \/ MakeTempDir
    \/ StageConfiguration
    \/ DownloadRootfs
    \/ ExtractRootfs
    \/ \E p \in Procs : AppAfterFork(p)
    \/ \E p \in Procs : PullImage(p)
    \/ \E p \in Procs : SetupStep(p)
    \/ \E p \in Procs : BuildImageReturn(p)
    \/ \E p \in Procs : PipelineStage(p)
    \/ \E p \in Supervisors : RunForked(p)
    \/ \E p \in Supervisors : WaitForChild(p)
    \/ \E c \in Children : RunChild(c)

SpecQuiet == InitQuiet /\ [][NextQuiet]_vars

(***************************************************************************)
(* The program from its start: the configuration file is anything a file   *)
(* can be, and it is loaded before the run.                                *)
(***************************************************************************)
Documents == {Unreadable, Malformed} \cup {Parsed(c) : c \in Configurations}

InitLoad ==
    /\ doc \in Documents
    /\ conf = NotLoaded
    /\ copied = <<>>
    /\ stdout = <<>>
    /\ cmd = Executed(Exit(0))
    /\ ids = [uid |-> 1000, gid |-> 100]
    /\ sandbox = NoSandbox
    /\ life = [p \in Procs |-> IF p = 0 THEN "running" ELSE "unborn"]
    /\ term = [p \in Procs |-> NoTerm]
    /\ stopPending = [p \in Procs |-> FALSE]
    /\ stopSig = [p \in Procs |-> "none"]
    /\ pc = [p \in Procs |-> IF p = 0 THEN "load" ELSE "unborn"]
    /\ fn = [p \in Procs |-> IF p = 0 THEN "app_run" ELSE "none"]
    /\ sstep = 1
    /\ setupRet = "none"
    /\ pstage = 1
    /\ guards = <<>>
    /\ mounts = {}
    /\ chans = <<>>
    /\ rf = [p \in Supervisors |-> IdleCall]
    /\ work = [p \in Procs |-> NoWork]
    /\ log = <<>>
    /\ rootExists = FALSE
    /\ imagePath = <<>>
    /\ appResult = "none"
    /\ sigBudget = 0

NextLoad == LoadConfiguration \/ NextQuiet

SpecLoad == InitLoad /\ [][NextLoad]_vars

(***************************************************************************)
(* nixos_generate on its own: the sandbox is set up, both supervisors are  *)
(* in waitpid, the pipeline has reached its last stage, and what the       *)
(* generator prints is drawn from every output of the bounded alphabet;    *)
(* the run is then followed to its end.                                    *)
(***************************************************************************)
\* the sandbox as setup_namespace leaves it when every step succeeded
ReadySandbox ==
    [uid |-> 1000, gid |-> 100, unshared |-> TRUE, dirs |-> {"new_root", "old_root"},
     cwd |-> "/", root |-> "new_root", oldRootAt |-> "/old_root", setgroups |-> "deny",
     uidMap |-> << <<0, 1000, 1>> >>, gidMap |-> << <<0, 100, 1>> >>]

\* the sandbox is set up, both supervisors wait, and the pipeline is about to
\* run the stage of index stage
MidBuild(stage) ==
    LET empty == [q |-> <<>>, sends |-> 0, recvs |-> 0]
        waiting == [IdleCall EXCEPT !.state = "waiting", !.forked = TRUE]
    IN  /\ copied = <<>>
        /\ ids = [uid |-> 1000, gid |-> 100]
        /\ sandbox = ReadySandbox
        /\ life = [p \in Procs |-> "running"]
        /\ term = [p \in Procs |-> NoTerm]
        /\ stopPending = [p \in Procs |-> FALSE]
        /\ stopSig = [p \in Procs |-> "none"]
        /\ pc = [p \in Procs |-> IF p = 2 THEN "pipeline" ELSE "wait"]
        /\ fn = [p \in Procs |-> IF p = 0 THEN "app_run"
                                 ELSE IF p = 1 THEN "build_image"
                                 ELSE "run_build_process"]
        /\ sstep = Len(SetupSteps)
        /\ setupRet = "ok"
        /\ pstage = stage
        /\ guards = <<>>
        /\ mounts = {BindTarget(s) : s \in {"bind_root", "bind_proc", "bind_sys", "bind_dev"}}
        /\ chans = <<empty, empty>>
        /\ rf = [p \in Supervisors |-> [waiting EXCEPT !.ch = p + 1]]
        /\ work = [p \in Procs |-> NoWork]
        /\ log = <<>>
        /\ rootExists = TRUE
        /\ imagePath = <<>>
        /\ appResult = "none"
        /\ sigBudget = 0

\* the configurations that differ in where the image is pulled to
OutputConfigurations == {c \in ValidConfigurations : ~HasNixConfiguration(c)}

InitGenerate ==
    /\ \E c \in OutputConfigurations : doc = Parsed(c) /\ conf = Loaded(c)
    /\ stdout \in GenOutputs
    /\ cmd = Executed(Exit(0))
    /\ MidBuild(Len(PipelineStages))

NextGenerate ==
    \/ \E p \in Children : NixosGenerate(p)
    \/ \E c \in Children : RunChild(c)
    \/ \E p \in Supervisors : WaitForChild(p)
    \/ \E p \in Procs : BuildImageReturn(p)
    \/ \E p \in Procs : AppAfterFork(p)
    \/ \E p \in Procs : PullImage(p)

SpecGenerate == InitGenerate /\ [][NextGenerate]_vars

(***************************************************************************)
(* The build pipeline with its external commands given: every command the  *)
(* pipeline runs cannot be executed, or ends with the status drawn,        *)
(* printing the output drawn; the stages that run no command succeed or    *)
(* fail as they may.                                                       *)
(***************************************************************************)
CommandStatuses == {Exit(0), Exit(1), Exit(2), Killed("SIGKILL")}

Commands == {NotExecuted} \cup {Executed(st) : st \in CommandStatuses}

CommandOutputs == SeqsUpTo({Slash, 97}, 2)

InitCommand ==
    /\ doc = Parsed(DefaultConfiguration)
    /\ conf = Loaded(DefaultConfiguration)
    /\ cmd \in Commands
    /\ stdout \in CommandOutputs
    /\ MidBuild(1)

NextCommand ==
    \/ \E p \in Children : FileStage(p)
    \/ \E p \in Children : CommandStage(p)
    \/ \E c \in Children : RunChild(c)
    \/ \E p \in Supervisors : WaitForChild(p)
    \/ \E p \in Procs : BuildImageReturn(p)
    \/ \E p \in Procs : AppAfterFork(p)
    \/ \E p \in Procs : PullImage(p)

SpecCommand == InitCommand /\ [][NextCommand]_vars

(***************************************************************************)
(* Properties.                                                             *)
(***************************************************************************)
Range(f) == {f[i] : i \in DOMAIN f}

LiveProcs == {p \in Procs : Live(p)}

\* the operations of the log performed by the processes in ps, among ops
LogOf(ps, ops) == SelectSeq(log, LAMBDA e : e.proc \in ps /\ e.op \in ops)

\* every operation of the log among ops was performed by a process in ps
OnlyBy(ps, ops) == \A i \in 1..Len(log) : log[i].op \in ops => log[i].proc \in ps

SandboxOps ==
    {"unshare", "mkdir_new_root", "mkdir_old_root", "bind_root", "bind_proc",
     "bind_sys", "bind_dev", "chdir_new_root", "pivot_root", "chroot", "chdir_root",
     "open_setgroups", "write_setgroups", "open_uid_map", "write_uid_map",
     "open_gid_map", "write_gid_map"}

PipelineOps ==
    {"fix_resolv_conf", "enable_edge_repositories", "update_repositories",
     "install_packages", "create_nix_conf", "add_channel", "remove_default_profile",
     "update_channels", "install_nixos_generators", "nixos_generate"}

\* what the forked children do
ChildOps == SandboxOps \cup PipelineOps

\* what App::run does after its run_forked call
AfterForkOps == {"report_failure", "file_name", "copy", "remove_root"}

\* C1: whenever run_forked has returned in the parent and its forked child
\* sent its outcome and exited with status 0, what run_forked returned is
\* Ok(v) with v exactly the value the work function produced in the child;
\* this for each of the two invocations, each with its own child and channel.
C1_ReturnsChildValue ==
    \A p \in Supervisors :
        LET c == ChildOf(p)
        IN  rf[p].state = "returned" /\ work[c].sent /\ term[c] = Exit(0)
                => rf[p].result = ROk(work[c].val)

\* a run_forked call returned an error although its child sent its outcome
\* and exited with status 0
C1_ErrDespiteCleanChild ==
    \E p \in Supervisors :
        /\ rf[p].state = "returned" /\ rf[p].result.tag = "Err"
        /\ work[ChildOf(p)].sent /\ term[ChildOf(p)] = Exit(0)

C3_StopRelayed ==
    \A p \in Supervisors :
        rf[p].ev.kind = "Stopped"
            => /\ rf[p].state # "returned"
               /\ \E i \in 1..Len(log) :
                      log[i].proc = p /\ log[i].op = "kill_self" /\ log[i].arg \in StopSigs

\* run_forked returned because its child stopped, and the child is still
\* stopped
C3_ReturnedOnStop ==
    \E p \in Supervisors :
        /\ rf[p].state = "returned" /\ rf[p].ev.kind = "Stopped"
        /\ life[ChildOf(p)] = "stopped"

\* C4: whenever run_forked has returned to its caller after forking, the
\* child has terminated and has been reaped.
C4_ChildReapedOnReturn ==
    \A p \in Supervisors :
        rf[p].state = "returned" /\ rf[p].forked => life[ChildOf(p)] = "reaped"

\* run_forked returned and the caller runs on while the child it forked is
\* still running
C4_LiveChildLeftBehind ==
    \E p \in Supervisors :
        /\ rf[p].state = "returned" /\ rf[p].forked
        /\ life[ChildOf(p)] = "running"

\* C5: when waitpid reported the child killed by a signal, the supervisor
\* has sent exactly one signal, that same signal, to itself, and has not read
\* the channel; run_forked has returned, with the error of that step, exactly
\* when delivering the signal failed, and otherwise the supervisor was
\* terminated by that signal.
C5_ReRaisesSameSignal ==
    \A p \in Supervisors :
        rf[p].ev.kind = "Signaled"
            => LET kills == LogOf({p}, {"kill_self", "kill_child"})
               IN  /\ Len(kills) = 1
                   /\ kills[1].op = "kill_self"
                   /\ kills[1].arg = rf[p].ev.sig
                   /\ chans[rf[p].ch].recvs = 0
                   /\ rf[p].rd.tag = "None"
                   /\ rf[p].state = "returned" <=> ~kills[1].ok
                   /\ rf[p].state = "returned"
                          => rf[p].result = RErr(Error("kill_failed", 0, 0, rf[p].ev.sig))
                   /\ kills[1].ok => term[p] = Killed(rf[p].ev.sig)

\* a child was killed by SIGKILL and its supervisor died of SIGKILL too
C5_SignalMirrored ==
    \E p \in Supervisors :
        /\ rf[p].ev.kind = "Signaled" /\ rf[p].ev.sig = "SIGKILL"
        /\ term[ChildOf(p)] = Killed("SIGKILL")
        /\ term[p] = Killed("SIGKILL")

\* C6, as the spec states it: at most two processes are live at once.
C6_AtMostTwoLive == Cardinality(LiveProcs) <= 2

\* C6, as the code has it: at most three processes are live at once; the
\* supervising parent performs no sandbox operation, the child it forks is
\* the one that enters the sandbox, the child that one forks is the one that
\* executes the build pipeline, and each of the two forks at most once.
C6_ThreeProcessRoles ==
    /\ Cardinality(LiveProcs) <= 3
    /\ \A i \in 1..Len(log) :
          /\ log[i].op \in SandboxOps => log[i].proc = 1
          /\ log[i].op \in PipelineOps => log[i].proc = 2
    /\ LET forks == SelectSeq(log, LAMBDA e : e.op = "fork")
       IN  \A i \in 1..Len(forks) :
              /\ forks[i].proc \in Supervisors
              /\ \A j \in 1..Len(forks) : forks[i].proc = forks[j].proc => i = j

\* three processes are live: the parent waits, the child that entered the
\* sandbox waits, and its child is in the middle of the pipeline
C6_ThreeLive ==
    /\ LiveProcs = Procs
    /\ setupRet = "ok"
    /\ Len(LogOf({2}, PipelineOps)) >= 1
    /\ pc[2] = "pipeline"

\* C7: a forked child runs its work at most once and sends at most once;
\* when it has exited it ran the work exactly once, sent exactly once, and
\* exited with status 0 if the send succeeded and with status 1 if not; it
\* is never at the code that follows a run_forked call in App::run, whose
\* operations are performed by process 0 only.
C7_ChildRunsSendsExits ==
    /\ \A c \in Children :
        /\ work[c].runs <= 1
        /\ work[c].sends <= 1
        /\ work[c].sends = 1 => work[c].runs = 1 /\ term[c].kind = "exit"
        /\ term[c].kind = "exit"
               => /\ work[c].runs = 1
                  /\ work[c].sends = 1
                  /\ term[c].code = 0 <=> work[c].sent
                  /\ term[c].code = 1 <=> ~work[c].sent
                  /\ work[c].sent => chans[rf[ParentOf(c)].ch].sends = 1
                  /\ pc[c] = "exited"
        /\ fn[c] # "app_run"
        /\ pc[c] \notin {"pull", "done"}
    /\ OnlyBy({0}, AfterForkOps)

\* a child whose send failed exited with status 1, and process 0 went on to
\* report the failure
C7_FailedSendExitsOne ==
    /\ \E c \in Children : term[c] = Exit(1) /\ work[c].sends = 1 /\ ~work[c].sent
    /\ Len(LogOf({0}, {"report_failure"})) = 1

\* C8: every run_forked call that created a channel has a channel of its
\* own; on every channel at most one value is ever sent and the parent
\* receives at most once.
C8_OneShotChannel ==
    /\ \A i \in 1..Len(chans) :
        /\ chans[i].sends <= 1
        /\ chans[i].recvs <= 1
        /\ Len(chans[i].q) <= 1
    /\ \A p, q \in Supervisors :
        p # q /\ rf[p].ch # 0 /\ rf[q].ch # 0 => rf[p].ch # rf[q].ch
    /\ \A p \in Supervisors : rf[p].ch \in 0..Len(chans)
    /\ Len(chans) = Len(SelectSeq(log, LAMBDA e : e.op = "channel" /\ e.ok))

\* both calls made their channel, and on each one value was sent and received
C8_BothChannelsUsed ==
    /\ Len(chans) = 2
    /\ \A i \in 1..2 : chans[i].sends = 1 /\ chans[i].recvs = 1

\* C9: process 0 performs no sandbox operation and no pipeline stage; these
\* are performed by forked children only, after the one fork process 0
\* makes, by the process that runs build_image (the sandbox operations) and
\* by the child that process forks (the pipeline stages).
C9_OrchestratorOutside ==
    /\ LET tried == {j \in 1..Len(log) : log[j].op = "fork" /\ log[j].proc = 0}
           forks == {j \in tried : log[j] = Logged(0, "fork", "", TRUE)}
       IN  /\ \A j \in tried : \A k \in tried : j = k
           /\ \A i \in 1..Len(log) :
               /\ log[i].op \in ChildOps
                      => /\ log[i].proc \in Children
                         /\ \E j \in forks : j < i
               /\ log[i].op \in SandboxOps => fn[log[i].proc] = "build_image"
               /\ log[i].op \in PipelineOps
                      => /\ fn[log[i].proc] = "run_build_process"
                         /\ log[i].proc # 0 /\ fn[ParentOf(log[i].proc)] = "build_image"
    /\ fn[1] \in {"none", "build_image"}

\* the sandbox was entered and the pipeline ran to its end while process 0
\* was still in its one run_forked call
C9_UnitRanInChildren ==
    /\ rf[0].state = "waiting"
    /\ Len(LogOf(Children, SandboxOps)) = Len(SetupSteps)
    /\ Len(LogOf(Children, PipelineOps)) = Len(PipelineStages)

\* the order of the steps as the spec gives it
ClaimedSetupOrder ==
    << "unshare", "mkdir_new_root", "mkdir_old_root",
       "bind_root", "bind_proc", "bind_sys", "bind_dev",
       "chdir_new_root", "pivot_root", "chroot", "chdir_root",
       "write_setgroups", "write_uid_map", "write_gid_map" >>

ClaimedSetupOps == Range(ClaimedSetupOrder)

\* C10: the steps setup_namespace has performed are the first steps of the
\* order the spec gives, each performed once; every step but the last
\* performed succeeded (opening a file before writing it included), so no
\* step follows a failed one; setup_namespace returned Ok only after all
\* fourteen succeeded, and Err only after its last step failed.
C10_SetupLinear ==
    LET done == SelectSeq(log, LAMBDA e : e.op \in SandboxOps)
        main == SelectSeq(done, LAMBDA e : e.op \in ClaimedSetupOps)
    IN  /\ Len(main) <= Len(ClaimedSetupOrder)
        /\ \A i \in 1..Len(main) : main[i].op = ClaimedSetupOrder[i]
        /\ \A i \in 1..Len(done) : i < Len(done) => done[i].ok
        /\ setupRet = "ok"
               => /\ Len(main) = Len(ClaimedSetupOrder)
                  /\ \A i \in 1..Len(done) : done[i].ok
        /\ setupRet = "err" => done # <<>> /\ ~done[Len(done)].ok
        /\ setupRet = "none" => \A i \in 1..Len(done) : done[i].ok

\* binding /proc failed after the root was bound: no later step was
\* performed and setup_namespace returned Err
C10_AbortedAtBind ==
    LET done == LogOf(Procs, SandboxOps)
    IN  /\ setupRet = "err"
        /\ Len(done) = 5
        /\ done[4].op = "bind_root" /\ done[4].ok
        /\ done[5].op = "bind_proc" /\ ~done[5].ok

MapOps == {"open_uid_map", "write_uid_map", "open_gid_map", "write_gid_map"}

\* C11: in setup_namespace the uid map and the gid map are opened and
\* written only after "deny" was successfully written to the setgroups file
\* of the namespace: a map holds an entry only when setgroups is denied, and
\* when opening or writing the setgroups file failed, no map is touched.
C11_MapsAfterSetgroupsDenied ==
    LET denied == {j \in 1..Len(log) : log[j].op = "write_setgroups" /\ log[j].ok}
        refused == {j \in 1..Len(log) :
                       log[j].op \in {"open_setgroups", "write_setgroups"} /\ ~log[j].ok}
    IN  /\ (sandbox.uidMap # <<>> \/ sandbox.gidMap # <<>>) => sandbox.setgroups = "deny"
        /\ \A i \in 1..Len(log) :
              log[i].op \in MapOps => /\ refused = {}
                                      /\ \E j \in denied : j < i
        /\ refused # {} => sandbox.uidMap = <<>> /\ sandbox.gidMap = <<>>

\* both maps were written, in a namespace whose setgroups is denied
C11_MapsWrittenAfterDeny ==
    /\ sandbox.setgroups = "deny"
    /\ sandbox.uidMap # <<>> /\ sandbox.gidMap # <<>>
    /\ setupRet = "ok"

\* C12: in one sandbox setup the uid map and the gid map are each written
\* at most once, and what is written is the single entry "0 <id> 1": id 0 of
\* the namespace, for a range of length 1, onto the uid (the gid) that the
\* invoking user had before the namespaces were unshared.
C12_IdentityMaps ==
    /\ Cardinality({i \in 1..Len(log) : log[i].op = "write_uid_map"}) <= 1
    /\ Cardinality({i \in 1..Len(log) : log[i].op = "write_gid_map"}) <= 1
    /\ sandbox.uidMap \in {<<>>, << <<0, ids.uid, 1>> >>}
    /\ sandbox.gidMap \in {<<>>, << <<0, ids.gid, 1>> >>}
    /\ sandbox.uidMap # <<>>
           => \E i \in 1..Len(log) : log[i].op = "write_uid_map" /\ log[i].ok
    /\ sandbox.gidMap # <<>>
           => \E i \in 1..Len(log) : log[i].op = "write_gid_map" /\ log[i].ok

\* an unprivileged user's ids were mapped to 0 in the namespace
C12_UserMappedToRoot ==
    /\ ids = [uid |-> 1000, gid |-> 100]
    /\ sandbox.unshared
    /\ sandbox.uidMap = << <<0, 1000, 1>> >>
    /\ sandbox.gidMap = << <<0, 100, 1>> >>

\* C13: once setup_namespace has returned Ok, the host's previous root is
\* not reachable from inside the sandbox.
C13_HostUnreachableWhenReady ==
    setupRet = "ok" => sandbox.oldRootAt = "none"

\* setup_namespace returned Ok with root pivoted and the host's root still
\* mounted at /old_root
C13_OldRootStillMounted ==
    /\ setupRet = "ok"
    /\ sandbox.root = "new_root"
    /\ sandbox.oldRootAt = "/old_root"

BindSteps == {"bind_root", "bind_proc", "bind_sys", "bind_dev"}

\* the places of the log where target t was bound successfully
BoundAt(t) == {i \in 1..Len(log) : log[i].op \in BindSteps /\ log[i].arg = t /\ log[i].ok}

\* the places of the log where an unmount of target t was attempted
ReleasedAt(t) == {i \in 1..Len(log) : log[i].op = "umount" /\ log[i].arg = t}

\* C14: over the whole run and all processes, the unmounts attempted are
\* those of the guards released when setup_namespace returns, with Ok or
\* with Err: none before the return, and from the return on exactly one on
\* each target whose bind succeeded, made by the process that bound it (in
\* reverse order of the binds); a target whose bind failed, or was never
\* tried, is never unmounted.
C14_OneReleasePerGuard ==
    LET bound == SelectSeq(log, LAMBDA e : e.op \in BindSteps /\ e.ok)
        freed == SelectSeq(log, LAMBDA e : e.op = "umount")
        n == Len(bound)
    IN  /\ \A i \in 1..n : \A j \in 1..n : bound[i].arg = bound[j].arg => i = j
        /\ setupRet = "none" => freed = <<>> /\ guards = [i \in 1..n |-> bound[i].arg]
        /\ setupRet # "none"
               => /\ Len(freed) = n
                  /\ \A i \in 1..n : /\ freed[i].arg = bound[n + 1 - i].arg
                                     /\ freed[i].proc = bound[n + 1 - i].proc
                  /\ SelectSeq(log, LAMBDA e : (e.op \in BindSteps /\ e.ok)
                                                   \/ e.op = "umount") = bound \o freed

\* binding /dev failed after three binds succeeded: the three were each
\* released once, and no unmount was attempted on the fourth target
C14_ReleasedAfterFailedBind ==
    /\ setupRet = "err"
    /\ \A s \in {"bind_root", "bind_proc", "bind_sys"} :
           Cardinality(BoundAt(BindTarget(s))) = 1
           /\ Cardinality(ReleasedAt(BindTarget(s))) = 1
    /\ \E i \in 1..Len(log) : log[i].op = "bind_dev" /\ ~log[i].ok
    /\ ReleasedAt("new_root/dev") = {}
    /\ appResult # "none"

\* C15: a target bound successfully is on the mount table for as long as its
\* guard is held, is off the mount table once the guard has been released,
\* and is unmounted at most once even when the unmount fails.
C15_AbsentAfterRelease ==
    \A s \in BindSteps :
        LET t == BindTarget(s)
        IN  /\ t \in Range(guards) => t \in mounts
            /\ ReleasedAt(t) # {} => t \notin mounts
            /\ Cardinality(ReleasedAt(t)) <= 1

\* setup_namespace returned Ok: every guard was released by an unmount that
\* failed, once, and the four targets are still on the mount table
C15_StillMountedAfterRelease ==
    /\ setupRet = "ok"
    /\ guards = <<>>
    /\ \A s \in BindSteps :
           /\ Cardinality(ReleasedAt(BindTarget(s))) = 1
           /\ \A i \in ReleasedAt(BindTarget(s)) : ~log[i].ok
           /\ BindTarget(s) \in mounts

\* C16: what setup_namespace returns is decided by its steps alone: Ok when
\* all of them succeeded, the error of the failed step otherwise, whatever
\* the unmounts of the guards released at its return gave; a failed unmount
\* reports nothing and changes nothing in what the callers receive.
C16_UmountFailureSwallowed ==
    LET done == LogOf(Procs, SandboxOps)
        failed == {i \in 1..Len(done) : ~done[i].ok}
    IN  /\ setupRet = "ok" <=> (Len(done) = Len(SetupSteps) /\ failed = {})
        /\ setupRet = "err" <=> failed # {}
        /\ (setupRet = "err" /\ work[1].runs > 0) => work[1].val = ErrUnit

\* every step succeeded, every unmount at the return failed, and
\* setup_namespace returned Ok all the same
C16_OkDespiteFailedUmounts ==
    /\ setupRet = "ok"
    /\ ReleasedAt("new_root") # {}
    /\ \A i \in 1..Len(log) : log[i].op = "umount" => ~log[i].ok

\* whether step s was performed successfully
StepDone(s) == \E i \in 1..Len(log) : log[i].op = s /\ log[i].ok

\* C17 as claimed: when a step of setup_namespace has failed, every bind
\* made before it is still on the mount table.
C17_NoBindRemovedOnFailure ==
    setupRet = "err" => \A s \in BindSteps : StepDone(s) => BindTarget(s) \in mounts

\* C17: a failing step undoes nothing of the earlier steps but the binds:
\* the namespaces stay unshared, the directories stay created, the working
\* directory and the root stay changed, setgroups and the maps stay written;
\* each bind already made is released by its one unmount, and is off the
\* mount table exactly when that unmount succeeded.
C17_OnlyBindsReleased ==
    LET done == {log[i].op : i \in {j \in 1..Len(log) : log[j].ok}}
        freed == {log[i].arg : i \in {j \in 1..Len(log) :
                                          log[j].op = "umount" /\ log[j].ok}}
    IN  /\ sandbox.unshared = ("unshare" \in done)
        /\ sandbox.dirs = {d \in {"new_root", "old_root"} : ("mkdir_" \o d) \in done}
        /\ (sandbox.cwd # "host") = ("chdir_new_root" \in done)
        /\ (sandbox.cwd = "/") = ("chdir_root" \in done)
        /\ (sandbox.root = "new_root") = ("pivot_root" \in done)
        /\ (sandbox.oldRootAt = "/old_root") = ("pivot_root" \in done)
        /\ (sandbox.setgroups = "deny") = ("write_setgroups" \in done)
        /\ (sandbox.uidMap # <<>>) = ("write_uid_map" \in done)
        /\ (sandbox.gidMap # <<>>) = ("write_gid_map" \in done)
        /\ mounts = {BindTarget(s) : s \in BindSteps \cap done} \ freed

\* changing directory failed after the four binds: the unmount of /dev
\* succeeded and removed that bind, the unmount of /proc failed and left it,
\* and the namespaces and the directories are as the earlier steps left them
C17_PartlyReleasedOnFailure ==
    /\ setupRet = "err"
    /\ \E i \in 1..Len(log) : log[i].op = "chdir_new_root" /\ ~log[i].ok
    /\ "new_root/dev" \notin mounts
    /\ "new_root/proc" \in mounts
    /\ sandbox.unshared
    /\ sandbox.dirs = {"new_root", "old_root"}

\* the stages of the orchestrator, as the operations that end them in the log
StageOrder ==
    << {"make_temp_dir"}, {"stage_configuration"}, {"download"}, {"extract"},
       {"build"}, {"file_name", "copy"} >>

StageOps == UNION Range(StageOrder)

\* the stages a run goes through: staging the configuration copies nothing,
\* and leaves no trace, when no configuration was given
StagesDue == IF hasConf THEN <<1, 2, 3, 4, 5, 6>> ELSE <<1, 3, 4, 5, 6>>

\* C18: the orchestrator's stages are run in the order acquire root, stage
\* configuration, download, extract, isolated build, pull; each at most
\* once; a stage is run only when every earlier one succeeded; and success
\* is reported only when all of them succeeded.
C18_StagesInOrder ==
    LET stages == LogOf(Procs, StageOps)
    IN  /\ Len(stages) <= Len(StagesDue)
        /\ \A i \in 1..Len(stages) :
              /\ stages[i].op \in StageOrder[StagesDue[i]]
              /\ stages[i].proc = 0
              /\ i < Len(stages) => stages[i].ok
        /\ appResult = "ok" => /\ Len(stages) = Len(StagesDue)
                               /\ \A i \in 1..Len(stages) : stages[i].ok
        /\ appResult = "err" => stages # <<>> /\ ~stages[Len(stages)].ok

\* a run given a configuration went through the six stages and reported
\* success
C18_AllStagesSucceeded ==
    /\ hasConf
    /\ appResult = "ok"
    /\ Len(LogOf(Procs, StageOps)) = 6

\* the places of the log where the ephemeral root was created
RootMadeAt == {i \in 1..Len(log) : log[i].op = "make_temp_dir" /\ log[i].ok}

\* the places of the log where the ephemeral root was removed
RootRemovedAt == {i \in 1..Len(log) : log[i].op = "remove_root"}

\* C19: the ephemeral root is removed at most once, by the parent process
\* only and only as App::run returns; once App::run has returned, with Ok or
\* with Err at whatever stage, the root it created has been removed; a
\* forked child never removes it.
C19_RootRemovedOnReturn ==
    LET made == RootMadeAt
        removed == RootRemovedAt
    IN  /\ \A i \in removed :
              /\ log[i].proc = 0
              /\ appResult # "none"
              /\ \E j \in made : j < i
              /\ \A k \in removed : k = i
        /\ rootExists = (made # {} /\ removed = {})
        /\ appResult # "none" => /\ ~rootExists
                                 /\ made # {} => removed # {}

\* the build failed in the child, which exited; App::run returned Err and
\* the root was removed, by the parent
C19_RemovedAfterFailedBuild ==
    /\ appResult = "err"
    /\ term[1].kind = "exit"
    /\ \E i \in 1..Len(log) : log[i].op = "build" /\ ~log[i].ok
    /\ RootRemovedAt # {}
    /\ ~rootExists

PullOps == {"file_name", "copy"}

\* C20: the image is copied out of the ephemeral root by the pull step only,
\* which the parent runs only after run_forked returned Ok with the path
\* the build produced, and before the root is removed; no process inside the
\* sandbox and no other stage copies anything out.
C20_PullOnlyAfterBuild ==
    LET pulls == {j \in 1..Len(log) : log[j].op \in PullOps}
    IN  /\ (pc[0] = "pull" \/ pulls # {})
               => /\ rf[0].state = "returned" /\ rf[0].result.tag = "Ok"
                  /\ rf[0].result.val.ok
                  /\ imagePath = rf[0].result.val.path
        /\ \A i \in pulls :
              /\ log[i].proc = 0
              /\ i > 1 /\ log[i - 1].op = "build" /\ log[i - 1].ok
              /\ \A k \in RootRemovedAt : i < k
              /\ RootMadeAt # {}
        /\ pc[0] = "pull" => rootExists

\* the image was copied out, after the build and before the root was
\* removed, and the run succeeded
C20_ImagePulledBeforeRemoval ==
    /\ appResult = "ok"
    /\ \E i \in 1..Len(log) : log[i].op = "copy" /\ log[i].ok
    /\ RootRemovedAt # {}

\* nixos_generate has returned Ok in the process that ran the pipeline
Generated == work[2].runs = 1 /\ work[2].val.ok

\* the bytes of s before its first newline
RECURSIVE FirstLine(_)
FirstLine(s) ==
    IF s = <<>> \/ Head(s) = NewLine THEN <<>>
    ELSE <<Head(s)>> \o FirstLine(Tail(s))

\* the first line of the output, its leading separator stripped
FirstLinePath(out) ==
    LET line == FirstLine(out)
    IN  IF line # <<>> /\ Head(line) = Slash THEN Tail(line) ELSE line

\* C21: for every generator output, the path nixos_generate returns is the
\* first line of the output without its leading path separator and without
\* the newline that ends it; no byte of a later line is part of it.
C21_FirstLineOnly ==
    Generated => work[2].val.path = FirstLinePath(stdout)

\* the generator printed "/", a newline and a second line "a": the path
\* returned is "a", a byte of the second line
C21_SecondLineInPath ==
    /\ stdout = <<Slash, NewLine, 97>>
    /\ Generated
    /\ work[2].val.path = <<97>>

\* the outputs "/" p newline ... newline, with p free of newlines
IsPathLine(out) ==
    /\ Len(out) >= 2
    /\ out[1] = Slash
    /\ out[Len(out)] = NewLine
    /\ \A i \in 1..Len(out) : \A j \in 1..Len(out) :
          (out[i] = NewLine /\ i < j) => out[j] = NewLine

\* C22: when the generator prints "/", then a string p without newline,
\* then one or more newlines, the path nixos_generate returns is exactly p.
C22_PathLineParsed ==
    (Generated /\ IsPathLine(stdout))
        => /\ stdout = <<Slash>> \o work[2].val.path
                       \o [i \in 1..(Len(stdout) - 1 - Len(work[2].val.path)) |-> NewLine]
           /\ \A i \in 1..Len(work[2].val.path) : work[2].val.path[i] # NewLine

\* the generator printed "/a" and a newline, and the path returned is "a"
C22_FixtureParsed ==
    /\ stdout = <<Slash, 97, NewLine>>
    /\ Generated
    /\ work[2].val.path = <<97>>

\* path p is the ephemeral root or lies under it
InsideRoot(p) ==
    /\ Len(p) >= Len(RootPath)
    /\ SubSeq(p, 1, Len(RootPath)) = RootPath
    /\ Len(p) > Len(RootPath) => p[Len(RootPath) + 1] = Slash

\* C23: whatever the generator prints, the artifact path the isolated build
\* returns to the parent is absolute and has the ephemeral root as a prefix.
C23_ArtifactInsideRoot ==
    (rf[0].state = "returned" /\ rf[0].result.tag = "Ok" /\ rf[0].result.val.ok)
        => /\ IsAbsolute(rf[0].result.val.path)
           /\ InsideRoot(rf[0].result.val.path)

\* the generator printed "//a": the parent received the path "/a", which is
\* outside the ephemeral root
C23_ArtifactOutsideRoot ==
    /\ stdout = <<Slash, Slash, 97>>
    /\ rf[0].state = "returned"
    /\ rf[0].result = ROk(OkPath(<<Slash, 97>>))
    /\ ~InsideRoot(rf[0].result.val.path)

\* C25: when the child exited with a nonzero status, run_forked returns an
\* error in both cases, and the error returned when the channel could not
\* be read (it carries the read error) differs from the one returned when
\* the child's outcome was read (it carries the status only).
C25_FailureOriginsDistinct ==
    \A p \in Supervisors :
        (rf[p].state = "returned" /\ rf[p].ev.kind = "Exited" /\ rf[p].ev.status # 0)
            => /\ rf[p].result.tag = "Err"
               /\ rf[p].result.err.kind = "nonzero_status"
               /\ rf[p].result.err.status = rf[p].ev.status
               /\ rf[p].rd.tag \in {"Ok", "Err"}
               /\ rf[p].rd.tag = "Err" <=> rf[p].result.err.detail = "unable_to_read"
               /\ rf[p].rd.tag = "Ok" <=> rf[p].result.err.detail = "none"
               /\ rf[p].result # NonzeroStatusError(rf[p].ev,
                                     IF rf[p].rd.tag = "Ok"
                                     THEN RErr(Error("unable_to_read", 0, 0, "none"))
                                     ELSE ROk(ErrUnit))

\* a child exited with status 1 and left nothing readable on the channel:
\* the error returned carries the read error
C25_UnreadableChannelReported ==
    \E p \in Supervisors :
        /\ rf[p].state = "returned" /\ rf[p].ev.kind = "Exited" /\ rf[p].ev.status = 1
        /\ rf[p].rd.tag = "Err"
        /\ rf[p].result.err.detail = "unable_to_read"

\* the last operation of the log, when it is a stage that runs a command
LastCommandStage ==
    IF log # <<>> /\ log[Len(log)].op \in CommandStages
    THEN log[Len(log)] ELSE Logged(0, "none", "", TRUE)

\* C26: run_command_checked returns Ok, with the command's output, exactly
\* when the command could be executed and ended with a success status; for
\* a command that ended otherwise the error's message shows the captured
\* output; and a pipeline stage that runs a command fails when the command
\* fails: its failure ends the pipeline with an error.
C26_CheckedCommand ==
    LET r == RunCommandChecked(cmd, stdout)
        stage == LastCommandStage
    IN  /\ r.tag = "Ok" <=> (cmd.exec /\ cmd.status = Exit(0))
        /\ r.tag = "Ok" => r.output = [status |-> Exit(0), stdout |-> stdout]
        /\ (cmd.exec /\ cmd.status # Exit(0))
               => /\ r.err = "nonzero_status"
                  /\ r.shown = [status |-> cmd.status, stdout |-> stdout]
        /\ \A i \in 1..Len(log) :
              log[i].op \in CommandStages => log[i].ok = (cmd.exec /\ cmd.status = Exit(0))
        /\ (stage.op # "none" /\ ~stage.ok)
               => /\ pc[2] # "pipeline"
                  /\ work[2].runs = 1 /\ work[2].val = ErrUnit
                  /\ PipelineStages[pstage] = stage.op

\* apk update ended with status 1, printing "/a": the stage failed, the
\* pipeline returned an error and no later stage ran
C26_StageFailedWithCommand ==
    /\ cmd = Executed(Exit(1))
    /\ stdout = <<Slash, 97>>
    /\ LastCommandStage.op = "update_repositories"
    /\ ~LastCommandStage.ok
    /\ work[2].runs = 1 /\ ~work[2].val.ok

BothSet(c) == c.nix_configuration.some /\ c.nix_configuration_path.some

\* C24: Configuration::load returns an error for every document that sets
\* both nix_configuration and nix_configuration_path, and validation accepts
\* every parsed document that sets at most one of them; so no Configuration
\* obtained from load has both set, and no ephemeral root is made, nothing
\* is done to it and no sandbox is entered unless load returned such a
\* Configuration.
C24_BothOptionsRejected ==
    /\ \A d \in Documents :
        /\ (d.opens /\ d.parses /\ BothSet(d.val)) => ConfigurationLoad(d).state = "invalid"
        /\ (d.opens /\ d.parses /\ ~BothSet(d.val)) => ConfigurationLoad(d) = Loaded(d.val)
    /\ conf.state # "none" => conf = ConfigurationLoad(doc)
    /\ conf.state = "ok" => ~BothSet(conf.val)
    /\ (log # <<>> \/ rootExists \/ sandbox # NoSandbox \/ life[1] # "unborn")
        => conf.state = "ok" /\ ~BothSet(conf.val)

\* a file that sets both was loaded: the program has ended with an error
\* and did nothing
C24_RejectedBeforeAnyRoot ==
    /\ doc.opens /\ doc.parses /\ BothSet(doc.val)
    /\ conf.state = "invalid"
    /\ pc[0] = "done" /\ term[0] # Exit(0)
    /\ log = <<>> /\ ~rootExists

StagingOps == SelectSeq(log, LAMBDA e : e.op = "stage_configuration")

GeneratorOps == SelectSeq(log, LAMBDA e : e.op = "nixos_generate")

\* C27: configuration staging performs exactly one action chosen by the
\* configuration: nothing when neither option is set (and the run goes on),
\* a copy of the file when nix_configuration_path is set, a write of the
\* inline text when nix_configuration is set; and the generator is given
\* -c /configuration.nix if and only if a configuration was staged.
C27_StagedAsConfigured ==
    LET c == conf.val
        st == StagingOps
        gen == GeneratorOps
        past == pc[0] \notin {"load", "make_temp_dir", "stage_conf"}
    IN  /\ Len(st) <= 1
        /\ (~c.nix_configuration_path.some /\ ~c.nix_configuration.some) =>
              /\ st = <<>>
              /\ pc[0] = "done" => Logged(0, "download", "", TRUE) \in Range(log)
                                   \/ Logged(0, "download", "", FALSE) \in Range(log)
                                   \/ ~Logged(0, "make_temp_dir", "", TRUE) \in Range(log)
        /\ c.nix_configuration_path.some =>
              /\ \A i \in 1..Len(st) : st[i].arg = "copy" /\ st[i].proc = 0
              /\ (past /\ Logged(0, "make_temp_dir", "", TRUE) \in Range(log)) => Len(st) = 1
        /\ (c.nix_configuration.some /\ ~c.nix_configuration_path.some) =>
              /\ \A i \in 1..Len(st) : st[i].arg = "write" /\ st[i].proc = 0
              /\ (past /\ Logged(0, "make_temp_dir", "", TRUE) \in Range(log)) => Len(st) = 1
        /\ \A i \in 1..Len(gen) :
              (gen[i].arg = "-f lxc -c /configuration.nix")
                  <=> (st # <<>> /\ st[1].ok)
        /\ \A i \in 1..Len(gen) : gen[i].arg \in {"-f lxc", "-f lxc -c /configuration.nix"}

\* the file named by nix_configuration_path was copied into the root and
\* the generator was then given it
C27_CopiedAndPassed ==
    /\ conf.val.nix_configuration_path.some
    /\ StagingOps = <<Logged(0, "stage_configuration", "copy", TRUE)>>
    /\ GeneratorOps = <<Logged(2, "nixos_generate", "-f lxc -c /configuration.nix", TRUE)>>

PullSteps == SelectSeq(log, LAMBDA e : e.op \in {"copy", "file_name"})

\* C28: the pull step copies the artifact to the configured output_path
\* when one is configured, and otherwise to the final file-name component
\* of the artifact path; when no output_path is configured and the artifact
\* path has no file-name component it fails without copying anything.
C28_PulledToOutputPath ==
    LET out == conf.val.output_path
        name == FileName(imagePath)
        pulls == PullSteps
    IN  /\ Len(pulls) <= 1 /\ Len(copied) <= 1
        /\ \A i \in 1..Len(copied) :
              /\ copied[i].from = imagePath
              /\ out.some => copied[i].to = out.val
              /\ ~out.some => copied[i].to = name /\ name # <<>>
        /\ \A i \in 1..Len(pulls) :
              /\ pulls[i].op = "file_name" <=> (~out.some /\ name = <<>>)
              /\ pulls[i].op = "file_name" => copied = <<>> /\ ~pulls[i].ok /\ appResult = "err"
              /\ pulls[i].op = "copy" => Len(copied) = 1 /\ copied[1].ok = pulls[i].ok
        /\ copied # <<>> => pulls # <<>>

\* an artifact with a file name of its own was copied to the configured path
C28_CopiedToConfiguredPath ==
    /\ conf.val.output_path = Some(<<111>>)
    /\ FileName(imagePath) = <<97>>
    /\ copied = <<Copy(imagePath, <<111>>, TRUE)>>
    /\ appResult = "ok"

\* the stages of the build pipeline, as the operations each is made of
PipelineOrder ==
    << {"fix_resolv_conf"}, {"enable_edge_repositories"},
       {"update_repositories", "install_packages"}, {"create_nix_conf"},
       {"add_channel"}, {"remove_default_profile", "update_channels"},
       {"install_nixos_generators"}, {"nixos_generate"} >>

PipelineStageOf(op) == CHOOSE g \in 1..Len(PipelineOrder) : op \in PipelineOrder[g]

PipelineLog == SelectSeq(log, LAMBDA e : e.op \in PipelineOps)

\* C29: the build pipeline runs its stages in the fixed order fix DNS
\* resolution, enable edge repositories, update repositories and install the
\* toolchain, write the toolchain configuration, add the channel, refresh
\* channels, install the image-generation tool, invoke the image generator;
\* each stage starts only if all earlier stages succeeded, and the
\* generator is invoked at most once.
C29_PipelineInOrder ==
    LET pl == PipelineLog
        n == Len(pl)
    IN  /\ n > 0 => PipelineStageOf(pl[1].op) = 1
        /\ \A i \in 1..(n - 1) :
              /\ pl[i].ok
              /\ pl[i + 1].op # pl[i].op
              /\ PipelineStageOf(pl[i + 1].op) - PipelineStageOf(pl[i].op) \in {0, 1}
              /\ pl[i + 1].op = "update_repositories" => pl[i].op # "install_packages"
              /\ pl[i + 1].op = "remove_default_profile" => pl[i].op # "update_channels"
        /\ n > 0 /\ pl[n].op = "nixos_generate" => n = Len(PipelineStages)

\* every stage ran and the generator was invoked, once
C29_GeneratorInvokedLast ==
    LET pl == PipelineLog
    IN  /\ Len(pl) = Len(PipelineStages)
        /\ pl[Len(pl)] = Logged(2, "nixos_generate", "-f lxc", TRUE)
        /\ PipelineStageOf(pl[Len(pl) - 1].op) = 7

(***************************************************************************)
(* Progress: a supervisor that can take a step of wait_for_child takes it, *)
(* and a stopped process is continued.                                     *)
(***************************************************************************)
SpecLive ==
    /\ Init /\ [][Next]_vars
    /\ \A p \in Supervisors : WF_vars(WaitForChild(p))
    /\ \A p \in Procs : WF_vars(EnvCont(p))

ChildGone(p) == rf[p].forked /\ life[ChildOf(p)] \in {"zombie", "reaped"}

\* once the forked child has terminated, run_forked returns a result or the
\* supervisor is itself terminated by a signal: the one it re-raised, or, for
\* the supervisor that is a child too, one sent to it
C30_ReturnsOnceChildGone ==
    \A p \in Supervisors :
        ChildGone(p) ~> \/ rf[p].state = "returned"
                        \/ /\ life[p] \in {"zombie", "reaped"}
                           /\ term[p].kind = "signal"
                           /\ p = 0 => term[p] = term[ChildOf(p)]

\* C30: while the forked child is running, the supervisor that forked it,
\* if it is alive, is blocked in wait_for_child: run_forked has not returned.
C30_BlockedWhileChildRuns ==
    \A p \in Supervisors :
        (rf[p].forked /\ Running(ChildOf(p)) /\ Live(p))
            => rf[p].state = "waiting" /\ pc[p] = "wait"

\* the supervisor left wait_for_child on the report that its child had
\* stopped, and goes on while the child, continued, runs
C30_UnblockedByStop ==
    \E p \in Supervisors :
        /\ rf[p].forked /\ Running(ChildOf(p)) /\ Running(p)
        /\ rf[p].state = "returned" /\ rf[p].result.tag = "Err"
        /\ rf[p].result.err.kind = "unexpected_wait_event"
        /\ pc[p] # "wait"

\* what each work function does, as it shows in the log
WorkOps(f) == IF f = "build_image" THEN SandboxOps ELSE PipelineOps

\* C31: if channel creation fails, run_forked returns an error without
\* forking; if fork fails, it returns an error and no process has executed
\* the work function; neither operation is attempted a second time.
C31_FatalWithoutRetry ==
    \A p \in Supervisors :
        LET c == ChildOf(p)
            made == SelectSeq(log, LAMBDA e : e.proc = p /\ e.op = "channel")
            forks == SelectSeq(log, LAMBDA e : e.proc = p /\ e.op = "fork")
            idle == /\ life[c] = "unborn" /\ fn[c] = "none" /\ pc[c] = "unborn"
                    /\ work[c].runs = 0 /\ ~rf[p].forked
        IN  /\ Len(made) <= 1 /\ Len(forks) <= 1
            /\ (made # <<>> /\ ~made[1].ok)
                  => /\ forks = <<>> /\ idle
                     /\ rf[p].state = "returned"
                     /\ rf[p].result = RErr(Error("channel", 0, 0, "none"))
            /\ (forks # <<>> /\ ~forks[1].ok)
                  => /\ idle
                     /\ rf[p].state = "returned"
                     /\ rf[p].result = RErr(Error("fork", 0, 0, "none"))
                     /\ \A i \in 1..Len(log) : log[i].op \notin WorkOps(WorkOf(fn[p]))
            /\ forks # <<>> => made # <<>> /\ made[1].ok

\* the fork of the process that would run the pipeline failed inside the
\* sandbox: build_image's run_forked returned the error and no stage ran
C31_ForkFailedInSandbox ==
    /\ rf[1].state = "returned"
    /\ rf[1].result = RErr(Error("fork", 0, 0, "none"))
    /\ Logged(1, "fork", "", FALSE) \in Range(log)
    /\ life[2] = "unborn" /\ work[2].runs = 0

\* the ids the sandboxed process has as getuid and getgid report them inside
\* the namespace
InsideIds ==
    [uid |-> VisibleId(ids.uid, sandbox.unshared, sandbox.uidMap),
     gid |-> VisibleId(ids.gid, sandbox.unshared, sandbox.gidMap)]

\* the id outside the namespace that the id inside stands for
OutsideId(id, map) ==
    LET covers == {i \in 1..Len(map) : map[i][1] <= id /\ id < map[i][1] + map[i][3]}
    IN  IF covers = {} THEN -1
        ELSE LET i == CHOOSE j \in covers : TRUE
             IN  map[i][2] + (id - map[i][1])

\* C32: once setup_namespace has returned Ok, the process's uid and gid
\* inside the namespace are 0 and 0, and they stand for the uid and gid of
\* the invoking user outside; at every step of setup the ids read on entry
\* are those of the invoking user.
C32_RootInsideUserOutside ==
    /\ setupRet = "ok"
          => /\ InsideIds = [uid |-> 0, gid |-> 0]
             /\ OutsideId(InsideIds.uid, sandbox.uidMap) = ids.uid
             /\ OutsideId(InsideIds.gid, sandbox.gidMap) = ids.gid
    /\ sandbox # NoSandbox => sandbox.uid = ids.uid /\ sandbox.gid = ids.gid
    /\ (sandbox.unshared /\ sandbox.uidMap = <<>>) => InsideIds.uid = 65534
    /\ (sandbox.unshared /\ sandbox.gidMap = <<>>) => InsideIds.gid = 65534

\* setup completed for an ordinary user: root inside, still that user outside
C32_OrdinaryUserIsRootInside ==
    /\ setupRet = "ok"
    /\ ids = [uid |-> 1000, gid |-> 100]
    /\ InsideIds = [uid |-> 0, gid |-> 0]
    /\ OutsideId(0, sandbox.uidMap) = 1000 /\ OutsideId(0, sandbox.gidMap) = 100

\* the targets of the four binds, in the order in which their guards are dropped
ReleaseOrder == <<"new_root/dev", "new_root/sys", "new_root/proc", "new_root">>

\* C33: every bind guard acquired by setup_namespace is released when
\* setup_namespace returns, in reverse order of acquisition (dev, sys, proc,
\* new_root), on the success path and on the failure paths alike; on the
\* success path every unmount attempt comes before build_image makes its
\* channel and forks, and before the first pipeline stage, and no guard is
\* alive when the forked process exists.
C33_ReleasedBeforeFork ==
    LET um == SelectSeq(log, LAMBDA e : e.op = "umount")
        bound == SelectSeq(log, LAMBDA e : e.op \in BindSteps /\ e.ok)
        n == Len(bound)
        later == {i \in 1..Len(log) :
                     \/ log[i].op \in PipelineOps
                     \/ log[i].proc = 1 /\ log[i].op \in {"channel", "fork"}}
    IN  /\ setupRet = "none" => um = <<>> /\ Len(guards) = n
        /\ setupRet # "none"
              => /\ guards = <<>>
                 /\ Len(um) = n
                 /\ \A i \in 1..Len(um) : um[i].arg = bound[n + 1 - i].arg /\ um[i].proc = 1
        /\ setupRet = "ok" => [i \in 1..Len(um) |-> um[i].arg] = ReleaseOrder
        /\ later # {}
              => /\ setupRet = "ok"
                 /\ \A i \in later : \A j \in 1..Len(log) : log[j].op = "umount" => j < i
        /\ life[2] # "unborn" => guards = <<>> /\ Len(um) = Len(ReleaseOrder)

\* setup succeeded, the four guards were dropped, and the process forked
\* afterwards has run a pipeline stage
C33_PipelineAfterRelease ==
    LET um == SelectSeq(log, LAMBDA e : e.op = "umount")
    IN  /\ setupRet = "ok" /\ guards = <<>>
        /\ [i \in 1..Len(um) |-> um[i].arg] = ReleaseOrder
        /\ Logged(1, "fork", "", TRUE) \in Range(log)
        /\ Logged(2, "fix_resolv_conf", "", TRUE) \in Range(log)

====
